---------------------------- MODULE Spec2Model ----------------------------
(***************************************************************************)
(* A model of src/src/services/privacy.js: the PrivacyService (PHI         *)
(* detection, de-identification, re-identification, the in-memory          *)
(* de-identification map and its sweep) and the EncryptionService (master  *)
(* key load/create/rotate, key derivation with its cache, authenticated    *)
(* encryption of buffers and files).                                       *)
(*                                                                         *)
(* Strings the code inspects character by character (texts, user ids,      *)
(* contexts, cache keys) are sequences of one-character strings.  Offsets  *)
(* are 0-based as in JavaScript: offset i is the gap before s[i+1].        *)
(***************************************************************************)
EXTENDS Integers, Sequences, FiniteSets, TLC

(***************************************************************************)
(* Characters and JavaScript string primitives                             *)
(***************************************************************************)
Upper == {"A","B","C","D","E","F","G","H","I","J","K","L","M",
          "N","O","P","Q","R","S","T","U","V","W","X","Y","Z"}

Lower == {"a","b","c","d","e","f","g","h","i","j","k","l","m",
          "n","o","p","q","r","s","t","u","v","w","x","y","z"}

Digit == {"0","1","2","3","4","5","6","7","8","9"}

Space == {" ", "\t", "\n"}

WordChar == Upper \cup Lower \cup Digit \cup {"_"}

\* String.prototype.substring(a, b) for 0 <= a, b (clamped to the length)
Substring(s, a, b) ==
  LET lo == IF a > Len(s) THEN Len(s) ELSE a
      hi == IF b > Len(s) THEN Len(s) ELSE b
  IN  IF hi <= lo THEN << >> ELSE SubSeq(s, lo + 1, hi)

\* does pat occur in s at offset i
OccursAt(s, pat, i) ==
  /\ i + Len(pat) <= Len(s)
  /\ \A k \in 1..Len(pat) : s[i + k] = pat[k]

\* String.prototype.indexOf(pat): the first offset, -1 when there is none
IndexOf(s, pat) ==
  IF \E i \in 0..Len(s) : OccursAt(s, pat, i)
  THEN CHOOSE i \in 0..Len(s) :
         /\ OccursAt(s, pat, i)
         /\ \A j \in 0..(i - 1) : ~OccursAt(s, pat, j)
  ELSE -1

\* String.prototype.includes(pat)
Includes(s, pat) == IndexOf(s, pat) # -1

\* String.prototype.replace(pat, rep) with a string pattern: the first
\* occurrence only.  The replacement strings the service passes are matched
\* PHI fragments, which no pattern lets contain "$", so no "$&"-style
\* substitution is ever expanded.
StrReplace(s, pat, rep) ==
  LET i == IndexOf(s, pat)
  IN  IF i = -1 THEN s
      ELSE Substring(s, 0, i) \o rep \o Substring(s, i + Len(pat), Len(s))

(***************************************************************************)
(* Regular expressions: a backtracking matcher with JavaScript's           *)
(* priorities (greedy quantifiers, alternatives left to right).            *)
(* Match(r, s, i) is the sequence of end offsets of the matches of r at    *)
(* offset i, in the order the engine tries them; its head is the match     *)
(* RegExp.prototype.exec reports.                                          *)
(***************************************************************************)
Cls(S) == [t |-> "cls", c |-> S]

Lit(ch) == Cls({ch})

WB == [t |-> "wb"]

Cat(rs) == [t |-> "cat", rs |-> rs]

Alt(rs) == [t |-> "alt", rs |-> rs]

\* r{lo,hi}, greedy; hi = -1 is "no upper limit"
Rep(r, lo, hi) == [t |-> "rep", r |-> r, lo |-> lo, hi |-> hi]

Plus(r) == Rep(r, 1, -1)

Star(r) == Rep(r, 0, -1)

Opt(r) == Rep(r, 0, 1)

\* a literal word
Word(w) == Cat([k \in 1..Len(w) |-> Lit(w[k])])

\* the upper- or lower-case partner of a letter ("i" flag)
CaseFold(ch) ==
  LET ups == <<"A","B","C","D","E","F","G","H","I","J","K","L","M",
               "N","O","P","Q","R","S","T","U","V","W","X","Y","Z">>
      los == <<"a","b","c","d","e","f","g","h","i","j","k","l","m",
               "n","o","p","q","r","s","t","u","v","w","x","y","z">>
  IN  {ch} \cup {ups[k] : k \in {j \in 1..26 : los[j] = ch}}
           \cup {los[k] : k \in {j \in 1..26 : ups[j] = ch}}

\* a literal word under the "i" flag
WordI(w) == Cat([k \in 1..Len(w) |-> Cls(CaseFold(w[k]))])

IsWordAt(s, k) == k >= 1 /\ k <= Len(s) /\ s[k] \in WordChar

RECURSIVE Match(_, _, _)
RECURSIVE MatchCat(_, _, _, _)
RECURSIVE MatchCatEach(_, _, _, _, _)
RECURSIVE MatchAlt(_, _, _, _)
RECURSIVE MatchRep(_, _, _, _)
RECURSIVE MatchRepEach(_, _, _, _, _, _)

\* the rest rs[k..] of a concatenation from offset i
MatchCat(rs, k, s, i) ==
  IF k > Len(rs) THEN <<i>>
  ELSE MatchCatEach(rs, k, s, Match(rs[k], s, i), 1)

MatchCatEach(rs, k, s, ends, j) ==
  IF j > Len(ends) THEN << >>
  ELSE MatchCat(rs, k + 1, s, ends[j]) \o MatchCatEach(rs, k, s, ends, j + 1)

MatchAlt(rs, k, s, i) ==
  IF k > Len(rs) THEN << >>
  ELSE Match(rs[k], s, i) \o MatchAlt(rs, k + 1, s, i)

\* n iterations of r.r done, now at offset i: one more iteration first
\* (greedy), then stopping here
MatchRep(r, n, s, i) ==
  LET more == IF r.hi = -1 \/ n < r.hi
              THEN MatchRepEach(r, n, s, i, Match(r.r, s, i), 1)
              ELSE << >>
      stop == IF n >= r.lo THEN <<i>> ELSE << >>
  IN  more \o stop

\* an iteration that consumes nothing is not repeated
MatchRepEach(r, n, s, i, ends, j) ==
  IF j > Len(ends) THEN << >>
  ELSE (IF ends[j] > i THEN MatchRep(r, n + 1, s, ends[j]) ELSE << >>)
         \o MatchRepEach(r, n, s, i, ends, j + 1)

Match(r, s, i) ==
  CASE r.t = "cls" -> IF i < Len(s) /\ s[i + 1] \in r.c THEN <<i + 1>> ELSE << >>
    [] r.t = "wb"  -> IF IsWordAt(s, i) # IsWordAt(s, i + 1) THEN <<i>> ELSE << >>
    [] r.t = "cat" -> MatchCat(r.rs, 1, s, i)
    [] r.t = "alt" -> MatchAlt(r.rs, 1, s, i)
    [] r.t = "rep" -> MatchRep(r, 0, s, i)

\* RegExp.prototype.exec from lastIndex: the leftmost start that matches
RECURSIVE Exec(_, _, _)
Exec(r, s, from) ==
  IF from > Len(s) THEN [found |-> FALSE]
  ELSE LET ends == Match(r, s, from)
       IN  IF ends # << >>
           THEN [found |-> TRUE, index |-> from, end |-> Head(ends)]
           ELSE Exec(r, s, from + 1)

\* String.prototype.matchAll with a /g pattern: successive matches, an
\* empty match advancing lastIndex by one
RECURSIVE MatchAll(_, _, _)
MatchAll(r, s, from) ==
  LET m == Exec(r, s, from)
  IN  IF ~m.found THEN << >>
      ELSE <<[index |-> m.index, text |-> Substring(s, m.index, m.end)]>>
             \o MatchAll(r, s, IF m.end = m.index THEN m.end + 1 ELSE m.end)

(***************************************************************************)
(* PrivacyService.initializePHIPatterns: the ten categories, in the order  *)
(* Object.entries enumerates them                                          *)
(***************************************************************************)
D == Cls(Digit)

Sep == Cls({"-", "."} \cup Space)

\* /\b[A-Z][a-z]+ [A-Z][a-z]+\b/g
namesPattern ==
  Cat(<<WB, Cls(Upper), Plus(Cls(Lower)), Lit(" "),
        Cls(Upper), Plus(Cls(Lower)), WB>>)

\* /\b\d{3}-\d{2}-\d{4}\b|\b\d{9}\b/g
ssnPattern ==
  Alt(<<Cat(<<WB, Rep(D, 3, 3), Lit("-"), Rep(D, 2, 2), Lit("-"), Rep(D, 4, 4), WB>>),
        Cat(<<WB, Rep(D, 9, 9), WB>>)>>)

\* /\b(?:MRN|mrn|Medical Record|medical record)[\s:]*(\d{6,})/gi
mrnPattern ==
  Cat(<<WB,
        Alt(<<WordI(<<"M","R","N">>), WordI(<<"m","r","n">>),
              WordI(<<"M","e","d","i","c","a","l"," ","R","e","c","o","r","d">>),
              WordI(<<"m","e","d","i","c","a","l"," ","r","e","c","o","r","d">>)>>),
        Star(Cls(Space \cup {":"})), Rep(D, 6, -1)>>)

\* /\b(\+?1[-.\s]?)?\(?(\d{3})\)?[-.\s]?(\d{3})[-.\s]?(\d{4})\b/g
phonePattern ==
  Cat(<<WB, Opt(Cat(<<Opt(Lit("+")), Lit("1"), Opt(Sep)>>)),
        Opt(Lit("(")), Rep(D, 3, 3), Opt(Lit(")")), Opt(Sep),
        Rep(D, 3, 3), Opt(Sep), Rep(D, 4, 4), WB>>)

\* /\b[A-Za-z0-9._%+-]+@[A-Za-z0-9.-]+\.[A-Z|a-z]{2,}\b/g
emailPattern ==
  Cat(<<WB, Plus(Cls(Upper \cup Lower \cup Digit \cup {".", "_", "%", "+", "-"})),
        Lit("@"), Plus(Cls(Upper \cup Lower \cup Digit \cup {".", "-"})),
        Lit("."), Rep(Cls(Upper \cup Lower \cup {"|"}), 2, -1), WB>>)

\* /\b(?:DOB|dob|Date of Birth|date of birth)[\s:]*
\*    (\d{1,2}\/\d{1,2}\/\d{4}|\d{1,2}-\d{1,2}-\d{4})/gi
dobPattern ==
  Cat(<<WB,
        Alt(<<WordI(<<"D","O","B">>), WordI(<<"d","o","b">>),
              WordI(<<"D","a","t","e"," ","o","f"," ","B","i","r","t","h">>),
              WordI(<<"d","a","t","e"," ","o","f"," ","b","i","r","t","h">>)>>),
        Star(Cls(Space \cup {":"})),
        Alt(<<Cat(<<Rep(D, 1, 2), Lit("/"), Rep(D, 1, 2), Lit("/"), Rep(D, 4, 4)>>),
              Cat(<<Rep(D, 1, 2), Lit("-"), Rep(D, 1, 2), Lit("-"), Rep(D, 4, 4)>>)>>)>>)

\* /\b\d+\s+[A-Za-z\s]+(?:Street|St|Avenue|Ave|Boulevard|Blvd|Road|Rd|Lane|Ln
\*    |Drive|Dr|Court|Ct|Circle|Cir)\b/gi
addressPattern ==
  Cat(<<WB, Plus(D), Plus(Cls(Space)), Plus(Cls(Upper \cup Lower \cup Space)),
        Alt(<<WordI(<<"S","t","r","e","e","t">>), WordI(<<"S","t">>),
              WordI(<<"A","v","e","n","u","e">>), WordI(<<"A","v","e">>),
              WordI(<<"B","o","u","l","e","v","a","r","d">>),
              WordI(<<"B","l","v","d">>), WordI(<<"R","o","a","d">>),
              WordI(<<"R","d">>), WordI(<<"L","a","n","e">>), WordI(<<"L","n">>),
              WordI(<<"D","r","i","v","e">>), WordI(<<"D","r">>),
              WordI(<<"C","o","u","r","t">>), WordI(<<"C","t">>),
              WordI(<<"C","i","r","c","l","e">>), WordI(<<"C","i","r">>)>>),
        WB>>)

\* /\b\d{5}(-\d{4})?\b/g
zipCodePattern ==
  Cat(<<WB, Rep(D, 5, 5), Opt(Cat(<<Lit("-"), Rep(D, 4, 4)>>)), WB>>)

\* /\b(?:insurance|policy|member)[\s#:]*([A-Z0-9]{6,})/gi
insurancePattern ==
  Cat(<<WB,
        Alt(<<WordI(<<"i","n","s","u","r","a","n","c","e">>),
              WordI(<<"p","o","l","i","c","y">>),
              WordI(<<"m","e","m","b","e","r">>)>>),
        Star(Cls(Space \cup {"#", ":"})),
        Rep(Cls(Upper \cup Lower \cup Digit), 6, -1)>>)

\* /\b(?:account|acct)[\s#:]*(\d{6,})/gi
accountPattern ==
  Cat(<<WB,
        Alt(<<WordI(<<"a","c","c","o","u","n","t">>), WordI(<<"a","c","c","t">>)>>),
        Star(Cls(Space \cup {"#", ":"})), Rep(D, 6, -1)>>)

initializePHIPatterns ==
  << [type |-> "names",     pattern |-> namesPattern,     replacement |-> <<"[","P","A","T","I","E","N","T","_","N","A","M","E","]">>,
      description |-> "Patient names"],
     [type |-> "ssn",       pattern |-> ssnPattern,       replacement |-> <<"[","S","S","N","]">>,
      description |-> "Social Security Numbers"],
     [type |-> "mrn",       pattern |-> mrnPattern,       replacement |-> <<"[","M","R","N","]">>,
      description |-> "Medical Record Numbers"],
     [type |-> "phone",     pattern |-> phonePattern,     replacement |-> <<"[","P","H","O","N","E","]">>,
      description |-> "Phone numbers"],
     [type |-> "email",     pattern |-> emailPattern,     replacement |-> <<"[","E","M","A","I","L","]">>,
      description |-> "Email addresses"],
     [type |-> "dob",       pattern |-> dobPattern,       replacement |-> <<"[","D","A","T","E","_","O","F","_","B","I","R","T","H","]">>,
      description |-> "Dates of birth"],
     [type |-> "address",   pattern |-> addressPattern,   replacement |-> <<"[","A","D","D","R","E","S","S","]">>,
      description |-> "Street addresses"],
     [type |-> "zipCode",   pattern |-> zipCodePattern,   replacement |-> <<"[","Z","I","P","]">>,
      description |-> "ZIP codes"],
     [type |-> "insurance", pattern |-> insurancePattern, replacement |-> <<"[","I","N","S","U","R","A","N","C","E","_","I","D","]">>,
      description |-> "Insurance identifiers"],
     [type |-> "account",   pattern |-> accountPattern,   replacement |-> <<"[","A","C","C","O","U","N","T","_","I","D","]">>,
      description |-> "Account numbers"] >>

(***************************************************************************)
(* PrivacyService.detectPHI: every pattern in turn, every match of it in   *)
(* text order; the list is grouped by category                             *)
(***************************************************************************)
detectionsOf(p, text) ==
  LET ms == MatchAll(p.pattern, text, 0)
  IN  [k \in 1..Len(ms) |->
         [type |-> p.type, description |-> p.description, text |-> ms[k].text,
          index |-> ms[k].index, length |-> Len(ms[k].text),
          replacement |-> p.replacement]]

RECURSIVE detectFrom(_, _, _)
detectFrom(ps, k, text) ==
  IF k > Len(ps) THEN << >>
  ELSE detectionsOf(ps[k], text) \o detectFrom(ps, k + 1, text)

\* The input texts of the model
\* no detection
TextNone == <<"h","i">>

\* two names, different values, apart
TextTwoNames == <<"A","l"," ","B","o",","," ","C","y"," ","D","i">>

\* a ZIP code before a name: two categories, apart
TextZipName == <<"1","2","3","4","5"," ","A","l"," ","B","o">>

\* a ZIP code after the literal text of its own placeholder
TextLiteral == <<"[","Z","I","P","]"," ","1","2","3","4","5">>

\* an address that contains a name: two overlapping detections
TextOverlap == <<"1"," ","A","b"," ","S","t">>

Texts == {TextNone, TextTwoNames, TextZipName, TextLiteral, TextOverlap}

\* the same address followed by text that belongs to no detection
TextOverlapTail == <<"1"," ","A","b"," ","S","t"," ","x">>

OverlapTexts == {TextOverlap, TextOverlapTail}

\* "Call John Smith at 555-123-4567"
TextExample ==
  <<"C","a","l","l"," ","J","o","h","n"," ","S","m","i","t","h"," ","a","t"," ",
    "5","5","5","-","1","2","3","-","4","5","6","7">>

\* "Call [PATIENT_NAME] at [PHONE]"
TextExampleReplaced ==
  <<"C","a","l","l"," ","[","P","A","T","I","E","N","T","_","N","A","M","E","]",
    " ","a","t"," ","[","P","H","O","N","E","]">>

\* the scans of the input texts, computed once
scanned == [text \in Texts \cup OverlapTexts \cup {TextExample} |-> detectFrom(initializePHIPatterns, 1, text)]

detectPHI(text) ==
  IF text \in DOMAIN scanned THEN scanned[text]
  ELSE detectFrom(initializePHIPatterns, 1, text)

\* the categories
Types == {initializePHIPatterns[n].type : n \in 1..Len(initializePHIPatterns)}

\* pattern.lastIndex of the ten patterns as initializePHIPatterns makes them
FreshIndex == [type \in Types |-> 0]

\* what a loop of pattern.exec(text) would leave in pattern.lastIndex after
\* its first match
lastIndexAfterExec(pattern, text, from) ==
  IF Exec(pattern, text, from).found THEN Exec(pattern, text, from).end ELSE 0

\* what text.matchAll(pattern) leaves in pattern.lastIndex: matchAll works
\* on a copy of the pattern that starts at pattern.lastIndex, and leaves the
\* pattern itself as it was
lastIndexAfterMatchAll(pattern, text, from) == from

\* detectPHI on an instance whose patterns have the lastIndex given
detectionsFrom(p, text, from) ==
  LET ms == MatchAll(p.pattern, text, from)
  IN  [k \in 1..Len(ms) |->
         [type |-> p.type, description |-> p.description, text |-> ms[k].text,
          index |-> ms[k].index, length |-> Len(ms[k].text),
          replacement |-> p.replacement]]

RECURSIVE detectWith(_, _, _, _)
detectWith(ps, k, text, lastIndex) ==
  IF k > Len(ps) THEN << >>
  ELSE detectionsFrom(ps[k], text, lastIndex[ps[k].type])
         \o detectWith(ps, k + 1, text, lastIndex)

detectPHIWith(text, lastIndex) ==
  IF lastIndex = FreshIndex THEN detectPHI(text)
  ELSE detectWith(initializePHIPatterns, 1, text, lastIndex)

\* pattern.lastIndex of the ten patterns after detectPHI(text)
lastIndexAfterDetect(text, lastIndex) ==
  [type \in Types |->
     lastIndexAfterMatchAll(
       initializePHIPatterns[CHOOSE n \in 1..Len(initializePHIPatterns) :
                               initializePHIPatterns[n].type = type].pattern,
       text, lastIndex[type])]

(***************************************************************************)
(* Values shared by both services                                          *)
(***************************************************************************)
\* JavaScript's null
Null == "null"

\* a randomUUID that returns one identifier again and again
UuidRepeated(n) == "uuid-0"

\* crypto.randomUUID(): the n-th identifier drawn; a draw never repeats
Uuid(n) == "uuid-" \o ToString(n)

\* crypto.createHash('sha256') over the concatenation of its updates: one
\* digest per input, different inputs giving different digests
Sha256(bytes) == [sha256 |-> bytes]

\* the characters of a category name
TypeChars(type) ==
  CASE type = "names"     -> <<"n","a","m","e","s">>
    [] type = "ssn"       -> <<"s","s","n">>
    [] type = "mrn"       -> <<"m","r","n">>
    [] type = "phone"     -> <<"p","h","o","n","e">>
    [] type = "email"     -> <<"e","m","a","i","l">>
    [] type = "dob"       -> <<"d","o","b">>
    [] type = "address"   -> <<"a","d","d","r","e","s","s">>
    [] type = "zipCode"   -> <<"z","i","p","C","o","d","e">>
    [] type = "insurance" -> <<"i","n","s","u","r","a","n","c","e">>
    [] type = "account"   -> <<"a","c","c","o","u","n","t">>

\* String.prototype.toUpperCase
ToUpperCase(s) ==
  [k \in 1..Len(s) |->
     IF s[k] \in Lower THEN CHOOSE u \in Upper : u \in CaseFold(s[k]) ELSE s[k]]

\* config.security.jwtSecret, used as the salt of the pseudonyms
jwtSecret == <<"J">>

\* logger.auditLog / logger.securityEvent: the record handed to the audit sink
AuditEvent(event, details) == [eventType |-> "audit", event |-> event, details |-> details]

SecurityEvent(event, details) ==
  [eventType |-> "security", severity |-> "high", event |-> event, details |-> details]

(***************************************************************************)
(* PrivacyService.deidentify                                               *)
(***************************************************************************)
\* a pseudonym that names the text alone, not the category
generateHashUntyped(text, type) ==
  <<"[">> \o <<ToString(Sha256(text \o jwtSecret).sha256)>>
    \o <<"~", "~", "~", "~", "~", "~", "~">> \o <<"]">>

\* PrivacyService.generateConsistentHash: "[" TYPE "_" hash.substring(0, 8) "]".
\* The eight hex digits are one opaque character naming the hashed bytes
\* followed by seven fillers, so lengths are those of the code.
generateConsistentHash(text, type) ==
  <<"[">> \o ToUpperCase(TypeChars(type)) \o <<"_">>
    \o <<ToString(Sha256(text \o TypeChars(type) \o jwtSecret).sha256)>>
    \o <<"~", "~", "~", "~", "~", "~", "~">> \o <<"]">>

\* detections.sort((a, b) => b.index - a.index): descending index, stable
RECURSIVE InsertDesc(_, _)
InsertDesc(sorted, d) ==
  IF sorted = << >> THEN <<d>>
  ELSE IF Head(sorted).index >= d.index
       THEN <<Head(sorted)>> \o InsertDesc(Tail(sorted), d)
       ELSE <<d>> \o sorted

\* a sort that leaves out every detection whose span lies within the span
\* of another one
RECURSIVE SortDescOutermost(_, _)
SortDescOutermost(ds, k) ==
  IF k = 0 THEN << >>
  ELSE IF \E j \in 1..Len(ds) :
            /\ ds[j].index <= ds[k].index
            /\ ds[k].index + ds[k].length <= ds[j].index + ds[j].length
            /\ ds[j].length > ds[k].length
       THEN SortDescOutermost(ds, k - 1)
       ELSE InsertDesc(SortDescOutermost(ds, k - 1), ds[k])

RECURSIVE SortDesc(_, _)
SortDesc(ds, k) ==
  IF k = 0 THEN << >> ELSE InsertDesc(SortDesc(ds, k - 1), ds[k])

\* the replacement of one detection in a mode
newTextOf(detection, mode) ==
  CASE mode = "remove" -> << >>
    [] mode = "hash"   -> generateConsistentHash(detection.text, detection.type)
    [] OTHER           -> detection.replacement

\* the loop over the sorted detections: acc is [text, map, uuid], map the
\* identifierMap in insertion order, uuid the number of identifiers drawn
RECURSIVE deidentifyLoop(_, _, _, _, _)
deidentifyLoop(dets, k, mode, generateMap, acc) ==
  IF k > Len(dets) THEN acc
  ELSE LET d       == dets[k]
           newText == newTextOf(d, mode)
           entry   == [key |-> <<d.type, Uuid(acc.uuid + 1)>>, original |-> d.text,
                       type |-> d.type, index |-> d.index, replacement |-> newText]
       IN  deidentifyLoop(dets, k + 1, mode, generateMap,
             [text |-> Substring(acc.text, 0, d.index) \o newText
                         \o Substring(acc.text, d.index + d.length, Len(acc.text)),
              map  |-> IF generateMap THEN Append(acc.map, entry) ELSE acc.map,
              uuid |-> IF generateMap THEN acc.uuid + 1 ELSE acc.uuid])

\* the order in which categories first appear in a detection list
RECURSIVE TypesOf(_, _)
TypesOf(ds, k) ==
  IF k = 0 THEN << >>
  ELSE LET before == TypesOf(ds, k - 1)
       IN  IF \E j \in 1..Len(before) : before[j] = ds[k].type
           THEN before ELSE Append(before, ds[k].type)

\* what detectPHI hands to logger.auditLog: nothing without detections,
\* else their number, their categories and the length of the text
detectPHIEvents(text, detections) ==
  IF Len(detections) > 0
  THEN <<AuditEvent("PHI Detection",
           [detectionCount |-> Len(detections),
            types |-> TypesOf(detections, Len(detections)),
            textLength |-> Len(text)])>>
  ELSE << >>

\* What the call leaves behind and how it ends, given its detections, their
\* sorted list and the outcome (done) of the loop.  The returned object
\* reads the block-scoped mapId outside its block whenever generateMap is
\* true: a ReferenceError, raised after the map was stored and the audit
\* record written.
deidentifyReturn(text, mode, generateMap, store, now, detections, sorted, done) ==
  [store  |-> IF generateMap /\ Len(done.map) > 0
              THEN (Uuid(done.uuid + 1) :> [map |-> done.map, timestamp |-> now,
                                            textHash |-> Sha256(text)]) @@ store
              ELSE store,
   uuid   |-> IF generateMap /\ Len(done.map) > 0 THEN done.uuid + 1 ELSE done.uuid,
   events |-> detectPHIEvents(text, detections)
              \o <<AuditEvent("Data De-identification",
                     [originalLength |-> Len(text), deidentifiedLength |-> Len(done.text),
                      detectionCount |-> Len(detections), mode |-> mode,
                      mapGenerated |-> generateMap])>>,
   ok     |-> ~generateMap,
   error  |-> IF generateMap THEN "ReferenceError: mapId is not defined" ELSE Null,
   value  |-> IF generateMap THEN Null
              ELSE [text |-> done.text, detections |-> sorted, mapId |-> Null,
                    statistics |-> [originalLength |-> Len(text),
                                    deidentifiedLength |-> Len(done.text),
                                    phiRemoved |-> Len(detections)]]]

\* the sort and the loop
deidentifySorted(text, mode, generateMap, store, uuid, now, detections, sorted) ==
  deidentifyReturn(text, mode, generateMap, store, now, detections, sorted,
    deidentifyLoop(sorted, 1, mode, generateMap,
                   [text |-> text, map |-> << >>, uuid |-> uuid]))

deidentifyDetected(text, mode, generateMap, store, uuid, now, detections) ==
  deidentifySorted(text, mode, generateMap, store, uuid, now, detections,
                   SortDesc(detections, Len(detections)))

\* The whole call on a service whose map is store, with uuid identifiers
\* drawn so far, at time now
deidentify(text, mode, generateMap, store, uuid, now) ==
  deidentifyDetected(text, mode, generateMap, store, uuid, now, detectPHI(text))

(***************************************************************************)
(* PrivacyService.reidentify and cleanupExpiredMaps                        *)
(***************************************************************************)
\* A requester identity: null, a string, or a number
NullUser == [kind |-> "null"]

StringUser(s) == [kind |-> "string", s |-> s]

NumberUser(n) == [kind |-> "number", n |-> n]

Truthy(userId) ==
  \/ userId.kind = "string" /\ userId.s # << >>
  \/ userId.kind = "number" /\ userId.n # 0

\* PrivacyService.isAuthorizedForReidentification: userId && (includes ...).
\* A truthy value that is no string has no includes(): a TypeError.
isAuthorizedForReidentification(userId) ==
  IF ~Truthy(userId) THEN [throws |-> FALSE, truthy |-> FALSE]
  ELSE IF userId.kind # "string" THEN [throws |-> TRUE, truthy |-> FALSE]
  ELSE [throws |-> FALSE,
        truthy |-> \/ Includes(userId.s, <<"a","d","m","i","n">>)
                   \/ Includes(userId.s, <<"p","h","y","s","i","c","i","a","n">>)
                   \/ Includes(userId.s, <<"a","u","t","h","o","r","i","z","e","d">>)]

\* for (const [key, mapping] of mapData.map) text = text.replace(...)
RECURSIVE applyMappings(_, _, _)
applyMappings(text, map, k) ==
  IF k > Len(map) THEN text
  ELSE applyMappings(StrReplace(text, map[k].replacement, map[k].original), map, k + 1)

\* a reidentify that reads a record while its last entry is already gone
reidentifyMidDeletion(deidentifiedText, mapId, userId, store, now) ==
  IF ~isAuthorizedForReidentification(userId).truthy \/ mapId \notin DOMAIN store
  THEN [ok |-> FALSE, error |-> "De-identification map not found", value |-> Null,
        events |-> <<SecurityEvent("Unauthorized Re-identification Attempt",
                       [userId |-> userId, mapId |-> mapId,
                        error |-> "De-identification map not found"])>>]
  ELSE [ok |-> TRUE, error |-> Null,
        value |-> applyMappings(deidentifiedText,
                                SubSeq(store[mapId].map, 1, Len(store[mapId].map) - 1), 1),
        events |-> <<AuditEvent("Data Re-identification",
                       [userId |-> userId, mapId |-> mapId, timestamp |-> now,
                        authorized |-> TRUE])>>]

\* reidentify without its authorization check
reidentifyUnchecked(deidentifiedText, mapId, userId, store, now) ==
  IF mapId \notin DOMAIN store
  THEN [ok |-> FALSE, error |-> "De-identification map not found", value |-> Null,
        events |-> <<SecurityEvent("Unauthorized Re-identification Attempt",
                       [userId |-> userId, mapId |-> mapId,
                        error |-> "De-identification map not found"])>>]
  ELSE [ok |-> TRUE, error |-> Null,
        value |-> applyMappings(deidentifiedText, store[mapId].map, 1),
        events |-> <<AuditEvent("Data Re-identification",
                       [userId |-> userId, mapId |-> mapId, timestamp |-> now,
                        authorized |-> TRUE])>>]

\* reidentify that looks the mapping up before it asks who is calling
reidentifyLookupFirst(deidentifiedText, mapId, userId, store, now) ==
  LET auth    == isAuthorizedForReidentification(userId)
      failure == IF mapId \notin DOMAIN store THEN "De-identification map not found"
                 ELSE IF auth.throws THEN "TypeError: userId.includes is not a function"
                 ELSE IF ~auth.truthy THEN "User not authorized for re-identification"
                 ELSE Null
  IN  IF failure # Null
      THEN [ok |-> FALSE, error |-> failure, value |-> Null,
            events |-> <<SecurityEvent("Unauthorized Re-identification Attempt",
                           [userId |-> userId, mapId |-> mapId, error |-> failure])>>]
      ELSE [ok |-> TRUE, error |-> Null,
            value |-> applyMappings(deidentifiedText, store[mapId].map, 1),
            events |-> <<AuditEvent("Data Re-identification",
                           [userId |-> userId, mapId |-> mapId, timestamp |-> now,
                            authorized |-> TRUE])>>]

\* The whole call.  Every throw inside the try block is caught, logged as
\* the security event and thrown again.
reidentify(deidentifiedText, mapId, userId, store, now) ==
  LET auth    == isAuthorizedForReidentification(userId)
      failure == IF auth.throws THEN "TypeError: userId.includes is not a function"
                 ELSE IF ~auth.truthy THEN "User not authorized for re-identification"
                 ELSE IF mapId \notin DOMAIN store THEN "De-identification map not found"
                 ELSE Null
  IN  IF failure # Null
      THEN [ok |-> FALSE, error |-> failure, value |-> Null,
            events |-> <<SecurityEvent("Unauthorized Re-identification Attempt",
                           [userId |-> userId, mapId |-> mapId, error |-> failure])>>]
      ELSE [ok |-> TRUE, error |-> Null,
            value |-> applyMappings(deidentifiedText, store[mapId].map, 1),
            events |-> <<AuditEvent("Data Re-identification",
                           [userId |-> userId, mapId |-> mapId, timestamp |-> now,
                            authorized |-> TRUE])>>]

\* const maxAge = 24 * 60 * 60 * 1000, in hours (the model's unit of time)
maxAge == 24

\* a sweep that also deletes the records whose age is exactly maxAge
cleanupAtMaxAge(store, now) ==
  [id \in {i \in DOMAIN store : now - store[i].timestamp < maxAge} |-> store[id]]

\* PrivacyService.cleanupExpiredMaps: delete every record older than maxAge
cleanupExpiredMaps(store, now) ==
  [id \in {i \in DOMAIN store : ~(now - store[i].timestamp > maxAge)} |-> store[id]]

(***************************************************************************)
(* EncryptionService: keys                                                 *)
(***************************************************************************)
\* this.algorithm
algorithm == "aes-256-gcm"

\* this.iterations
iterations == 100000

\* this.keyLength
keyLength == 32

\* crypto.randomBytes: the n-th draw; a draw never repeats
RandomBytes(n) == [random |-> n]

\* buf.toString('base64') and Buffer.from(str, 'base64')
Base64(bytes) == [base64 |-> bytes]

FromBase64(str) == str.base64

\* JSON.stringify of a record of strings, and JSON.parse of it
Stringify(record) == [exists |-> TRUE, json |-> record]

\* path contents: no file, a JSON file, a file that is no JSON
NoFile == [exists |-> FALSE]

Garbage == [exists |-> TRUE, garbage |-> TRUE]

Parses(file) == file.exists /\ "json" \in DOMAIN file

\* this.masterKey = null
NoMasterKey == [null |-> TRUE]

\* logger.error(message, error): the application log, not the audit sink
LogError(message, error) == [eventType |-> "error", event |-> message, error |-> error]

\* a generateMasterKey whose digest is taken over the base64 text of the key
\* and of the salt, not over their bytes
generateMasterKeyOverText(rand, uuid, now) ==
  [id |-> Uuid(uuid + 1),
   key |-> Base64(RandomBytes(rand + 1)),
   salt |-> Base64(RandomBytes(rand + 2)),
   algorithm |-> algorithm,
   created |-> now,
   verification |-> Sha256(<<Base64(RandomBytes(rand + 1)), Base64(RandomBytes(rand + 2)),
                             Uuid(uuid + 1)>>),
   version |-> "1.0"]

\* EncryptionService.generateMasterKey, after rand draws of randomBytes and
\* uuid draws of randomUUID, at time now
generateMasterKey(rand, uuid, now) ==
  [id |-> Uuid(uuid + 1),
   key |-> Base64(RandomBytes(rand + 1)),
   salt |-> Base64(RandomBytes(rand + 2)),
   algorithm |-> algorithm,
   created |-> now,
   verification |-> Sha256(<<RandomBytes(rand + 1), RandomBytes(rand + 2), Uuid(uuid + 1)>>),
   version |-> "1.0"]

\* verifyKeyIntegrity that accepts every record that has the fields
verifyKeyIntegrityLax(keyData) ==
  {"id", "key", "salt", "verification"} \subseteq DOMAIN keyData

\* EncryptionService.verifyKeyIntegrity: a missing field makes the hashing
\* throw, which the catch turns into false
verifyKeyIntegrity(keyData) ==
  IF {"id", "key", "salt", "verification"} \subseteq DOMAIN keyData
  THEN keyData.verification
         = Sha256(<<FromBase64(keyData.key), FromBase64(keyData.salt), keyData.id>>)
  ELSE FALSE

\* EncryptionService.loadOrCreateMasterKey up to its first await, on a key
\* file keyFile: the key loaded, or the failure, or the key generated and
\* awaited (pending)
loadOrCreateMasterKey(keyFile, rand, uuid, now) ==
  IF keyFile.exists
  THEN IF ~Parses(keyFile)
       THEN [state |-> "failed", masterKey |-> NoMasterKey,
             error |-> "SyntaxError: Unexpected token in JSON",
             events |-> <<LogError("Failed to load/create master key:",
                                   "SyntaxError: Unexpected token in JSON")>>]
       ELSE IF ~verifyKeyIntegrity(keyFile.json)
       THEN [state |-> "failed", masterKey |-> NoMasterKey,
             error |-> "Master key integrity verification failed",
             events |-> <<LogError("Failed to load/create master key:",
                                   "Master key integrity verification failed")>>]
       ELSE [state |-> "ready", masterKey |-> keyFile.json, error |-> Null,
             events |-> <<AuditEvent("Encryption Key Access",
                            [action |-> "master_key_loaded", keyId |-> keyFile.json.id,
                             algorithm |-> algorithm, compliance |-> "HIPAA"])>>]
  ELSE [state |-> "creating", masterKey |-> NoMasterKey, error |-> Null,
        pending |-> generateMasterKey(rand, uuid, now), events |-> << >>]

SystemKey == <<"s","y","s","t","e","m">>

\* `${context}:${userKey || 'system'}`; an absent userKey (null, undefined)
\* and the empty string are alike falsy, and are the empty sequence here
cacheKeyOf(context, userKey) ==
  context \o <<":">> \o (IF userKey = << >> THEN SystemKey ELSE userKey)

\* sha256(saltBuffer, context, userKey || ''): the salt has a fixed length,
\* context and userKey run together
contextSaltOf(masterKey, context, userKey) ==
  Sha256([salt |-> FromBase64(masterKey.salt), rest |-> context \o userKey])

\* crypto.pbkdf2Sync(masterKeyBuffer, contextSalt, iterations, keyLength, 'sha256')
Pbkdf2(password, salt) ==
  [pbkdf2 |-> password, salt |-> salt, iterations |-> iterations, keyLength |-> keyLength]

\* EncryptionService.deriveKey: the cached key if there is one; else the
\* key derived from this.masterKey (a TypeError when that is null), cached
deriveKey(context, userKey, masterKey, keyStore) ==
  IF cacheKeyOf(context, userKey) \in DOMAIN keyStore
  THEN [ok |-> TRUE, error |-> Null, value |-> keyStore[cacheKeyOf(context, userKey)],
        keyStore |-> keyStore, events |-> << >>]
  ELSE IF masterKey = NoMasterKey
  THEN [ok |-> FALSE, error |-> "TypeError: Cannot read properties of null (reading 'key')",
        keyStore |-> keyStore,
        events |-> <<LogError("Key derivation failed:",
                              "TypeError: Cannot read properties of null (reading 'key')")>>]
  ELSE [ok |-> TRUE, error |-> Null,
        value |-> Pbkdf2(FromBase64(masterKey.key),
                         contextSaltOf(masterKey, context, userKey)),
        keyStore |-> (cacheKeyOf(context, userKey) :>
                        Pbkdf2(FromBase64(masterKey.key),
                               contextSaltOf(masterKey, context, userKey))) @@ keyStore,
        events |-> <<AuditEvent("Key Derivation",
                       [context |-> context, hasUserKey |-> userKey # << >>,
                        algorithm |-> "pbkdf2", iterations |-> iterations])>>]

(***************************************************************************)
(* EncryptionService: authenticated encryption                             *)
(***************************************************************************)
\* crypto.createCipher(algorithm, password, options) takes the derived key
\* as a password and the iv as its options: the cipher key (and the nonce)
\* is a digest of the password, the random iv is not used
EvpBytesToKey(password) == [evp |-> password]

\* AES-256-GCM: the ciphertext of a plaintext under a key, the tag over it
GcmEncrypt(cipherKey, plaintext) == [gcm |-> cipherKey, plain |-> plaintext]

GcmTag(cipherKey, ciphertext) == [mac |-> cipherKey, over |-> ciphertext]

\* what decipher.update gives before the tag is checked: bytes in any case
Noise == <<"?">>

GcmDecrypt(cipherKey, ciphertext) ==
  IF "gcm" \in DOMAIN ciphertext /\ ciphertext.gcm = cipherKey
  THEN ciphertext.plain ELSE Noise

\* whether decipher.final accepts: the tag set is the tag of the ciphertext
\* under the key
GcmVerifies(cipherKey, ciphertext, tag) == tag = GcmTag(cipherKey, ciphertext)

\* a bit of a byte string flipped
FlipBit(bytes) == [flipped |-> bytes]

AuthFailure == "Unsupported state or unable to authenticate data"

\* an encrypt whose audit record carries the data, not its length
encryptLoggingData(data, context, userKey, d, rand, now) ==
  IF ~d.ok
  THEN [ok |-> FALSE, error |-> d.error, keyStore |-> d.keyStore, rand |-> rand,
        events |-> d.events \o <<LogError("Encryption failed:", d.error)>>]
  ELSE [ok |-> TRUE, error |-> Null, keyStore |-> d.keyStore, rand |-> rand + 1,
        value |-> [data |-> Base64(GcmEncrypt(EvpBytesToKey(d.value), data)),
                   iv |-> Base64(RandomBytes(rand + 1)),
                   tag |-> Base64(GcmTag(EvpBytesToKey(d.value),
                                         GcmEncrypt(EvpBytesToKey(d.value), data))),
                   algorithm |-> algorithm, context |-> context, timestamp |-> now],
        events |-> d.events \o <<AuditEvent("Data Encryption",
                      [context |-> context, data |-> data,
                       algorithm |-> algorithm, hasUserKey |-> userKey # << >>])>>]

\* an encrypt whose tag is the tag of the plaintext, not of the ciphertext
encryptTagOverPlaintext(data, context, userKey, d, rand, now) ==
  IF ~d.ok
  THEN [ok |-> FALSE, error |-> d.error, keyStore |-> d.keyStore, rand |-> rand,
        events |-> d.events \o <<LogError("Encryption failed:", d.error)>>]
  ELSE [ok |-> TRUE, error |-> Null, keyStore |-> d.keyStore, rand |-> rand + 1,
        value |-> [data |-> Base64(GcmEncrypt(EvpBytesToKey(d.value), data)),
                   iv |-> Base64(RandomBytes(rand + 1)),
                   tag |-> Base64(GcmTag(EvpBytesToKey(d.value), data)),
                   algorithm |-> algorithm, context |-> context, timestamp |-> now],
        events |-> d.events \o <<AuditEvent("Data Encryption",
                      [context |-> context, dataLength |-> Len(data),
                       algorithm |-> algorithm, hasUserKey |-> userKey # << >>])>>]

\* EncryptionService.encrypt, d the outcome of its deriveKey call
encryptWith(data, context, userKey, d, rand, now) ==
  IF ~d.ok
  THEN [ok |-> FALSE, error |-> d.error, keyStore |-> d.keyStore, rand |-> rand,
        events |-> d.events \o <<LogError("Encryption failed:", d.error)>>]
  ELSE [ok |-> TRUE, error |-> Null, keyStore |-> d.keyStore, rand |-> rand + 1,
        value |-> [data |-> Base64(GcmEncrypt(EvpBytesToKey(d.value), data)),
                   iv |-> Base64(RandomBytes(rand + 1)),
                   tag |-> Base64(GcmTag(EvpBytesToKey(d.value),
                                         GcmEncrypt(EvpBytesToKey(d.value), data))),
                   algorithm |-> algorithm, context |-> context, timestamp |-> now],
        events |-> d.events \o <<AuditEvent("Data Encryption",
                      [context |-> context, dataLength |-> Len(data),
                       algorithm |-> algorithm, hasUserKey |-> userKey # << >>])>>]

encrypt(data, context, userKey, masterKey, keyStore, rand, now) ==
  encryptWith(data, context, userKey, deriveKey(context, userKey, masterKey, keyStore),
              rand, now)

\* decrypt that returns what update gave without the check of final
decryptUnverified(encryptedData, context, userKey, d) ==
  IF ~d.ok
  THEN [ok |-> FALSE, error |-> d.error, keyStore |-> d.keyStore,
        events |-> d.events \o <<LogError("Decryption failed:", d.error)>>]
  ELSE [ok |-> TRUE, error |-> Null, keyStore |-> d.keyStore,
        value |-> GcmDecrypt(EvpBytesToKey(d.value), FromBase64(encryptedData.data)),
        events |-> d.events \o <<AuditEvent("Data Decryption",
                      [context |-> context, algorithm |-> encryptedData.algorithm,
                       hasUserKey |-> userKey # << >>,
                       timestamp |-> encryptedData.timestamp])>>]

\* EncryptionService.decrypt after the algorithm check, d the outcome of its
\* deriveKey call: update, then final, which throws unless the tag verifies
decryptWith(encryptedData, context, userKey, d) ==
  IF ~d.ok
  THEN [ok |-> FALSE, error |-> d.error, keyStore |-> d.keyStore,
        events |-> d.events \o <<LogError("Decryption failed:", d.error)>>]
  ELSE IF ~GcmVerifies(EvpBytesToKey(d.value), FromBase64(encryptedData.data),
                       FromBase64(encryptedData.tag))
  THEN [ok |-> FALSE, error |-> AuthFailure, keyStore |-> d.keyStore,
        events |-> d.events \o <<LogError("Decryption failed:", AuthFailure)>>]
  ELSE [ok |-> TRUE, error |-> Null, keyStore |-> d.keyStore,
        value |-> GcmDecrypt(EvpBytesToKey(d.value), FromBase64(encryptedData.data)),
        events |-> d.events \o <<AuditEvent("Data Decryption",
                      [context |-> context, algorithm |-> encryptedData.algorithm,
                       hasUserKey |-> userKey # << >>,
                       timestamp |-> encryptedData.timestamp])>>]

\* EncryptionService.decrypt
decrypt(encryptedData, context, userKey, masterKey, keyStore) ==
  IF encryptedData.algorithm # algorithm
  THEN [ok |-> FALSE, error |-> "Unsupported encryption algorithm", keyStore |-> keyStore,
        events |-> <<LogError("Decryption failed:", "Unsupported encryption algorithm")>>]
  ELSE decryptWith(encryptedData, context, userKey,
                   deriveKey(context, userKey, masterKey, keyStore))

(***************************************************************************)
(* EncryptionService: rotation and cleanup                                 *)
(***************************************************************************)
\* How the file system answers the two writes of a rotation: both succeed,
\* the copy fails, the write of the key file fails leaving the file as it
\* was, or fails leaving it truncated
IoOutcomes == {"ok", "copyFails", "writeFails", "writeTruncates"}

\* rotateMasterKey whose swap leaves the derived-key cache as it is
rotateKeepingCache(newMasterKey, masterKey, keyStore, keyFile, backups, now, io) ==
  IF ~keyFile.exists \/ io = "copyFails"
  THEN [ok |-> FALSE, error |-> "copyFileSync failed", masterKey |-> masterKey,
        keyStore |-> keyStore, keyFile |-> keyFile, backups |-> backups,
        events |-> <<LogError("Master key rotation failed:", "copyFileSync failed")>>]
  ELSE IF masterKey = NoMasterKey
  THEN [ok |-> FALSE, error |-> "TypeError: Cannot read properties of null (reading 'id')",
        masterKey |-> masterKey, keyStore |-> keyStore, keyFile |-> keyFile,
        backups |-> (now :> keyFile) @@ backups,
        events |-> <<LogError("Master key rotation failed:",
                       "TypeError: Cannot read properties of null (reading 'id')")>>]
  ELSE IF io \in {"writeFails", "writeTruncates"}
  THEN [ok |-> FALSE, error |-> "writeFileSync failed", masterKey |-> newMasterKey,
        keyStore |-> keyStore,
        keyFile |-> IF io = "writeTruncates" THEN Garbage ELSE keyFile,
        backups |-> (now :> keyFile) @@ backups,
        events |-> <<LogError("Master key rotation failed:", "writeFileSync failed")>>]
  ELSE [ok |-> TRUE, error |-> Null, masterKey |-> newMasterKey, keyStore |-> keyStore,
        keyFile |-> Stringify(newMasterKey),
        backups |-> (now :> keyFile) @@ backups,
        events |-> <<AuditEvent("Master Key Rotation",
                       [oldKeyId |-> masterKey.id, newKeyId |-> newMasterKey.id,
                        backupPath |-> now, timestamp |-> now])>>]

\* a rotation that swaps the key, clears the cache and writes the key file
\* without the copyFileSync to the backup path
rotateWithoutBackup(newMasterKey, masterKey, keyStore, keyFile, backups, now, io) ==
  IF masterKey = NoMasterKey
  THEN [ok |-> FALSE, error |-> "TypeError: Cannot read properties of null (reading 'id')",
        masterKey |-> masterKey, keyStore |-> keyStore, keyFile |-> keyFile,
        backups |-> backups,
        events |-> <<LogError("Master key rotation failed:",
                       "TypeError: Cannot read properties of null (reading 'id')")>>]
  ELSE IF io \in {"writeFails", "writeTruncates"}
  THEN [ok |-> FALSE, error |-> "writeFileSync failed", masterKey |-> newMasterKey,
        keyStore |-> << >>,
        keyFile |-> IF io = "writeTruncates" THEN Garbage ELSE keyFile,
        backups |-> backups,
        events |-> <<LogError("Master key rotation failed:", "writeFileSync failed")>>]
  ELSE [ok |-> TRUE, error |-> Null, masterKey |-> newMasterKey, keyStore |-> << >>,
        keyFile |-> Stringify(newMasterKey),
        backups |-> backups,
        events |-> <<AuditEvent("Master Key Rotation",
                       [oldKeyId |-> masterKey.id, newKeyId |-> newMasterKey.id,
                        backupPath |-> now, timestamp |-> now])>>]

\* EncryptionService.rotateMasterKey after its await, newMasterKey the key
\* generated before it: copy the key file to master.key.backup.<now>, read
\* the old id, swap the key, clear the cache, write the key file.  Nothing
\* is undone when a step throws.
rotateMasterKey(newMasterKey, masterKey, keyStore, keyFile, backups, now, io) ==
  IF ~keyFile.exists \/ io = "copyFails"
  THEN [ok |-> FALSE, error |-> "copyFileSync failed", masterKey |-> masterKey,
        keyStore |-> keyStore, keyFile |-> keyFile, backups |-> backups,
        events |-> <<LogError("Master key rotation failed:", "copyFileSync failed")>>]
  ELSE IF masterKey = NoMasterKey
  THEN [ok |-> FALSE, error |-> "TypeError: Cannot read properties of null (reading 'id')",
        masterKey |-> masterKey, keyStore |-> keyStore, keyFile |-> keyFile,
        backups |-> (now :> keyFile) @@ backups,
        events |-> <<LogError("Master key rotation failed:",
                       "TypeError: Cannot read properties of null (reading 'id')")>>]
  ELSE IF io \in {"writeFails", "writeTruncates"}
  THEN [ok |-> FALSE, error |-> "writeFileSync failed", masterKey |-> newMasterKey,
        keyStore |-> << >>,
        keyFile |-> IF io = "writeTruncates" THEN Garbage ELSE keyFile,
        backups |-> (now :> keyFile) @@ backups,
        events |-> <<LogError("Master key rotation failed:", "writeFileSync failed")>>]
  ELSE [ok |-> TRUE, error |-> Null, masterKey |-> newMasterKey, keyStore |-> << >>,
        keyFile |-> Stringify(newMasterKey),
        backups |-> (now :> keyFile) @@ backups,
        events |-> <<AuditEvent("Master Key Rotation",
                       [oldKeyId |-> masterKey.id, newKeyId |-> newMasterKey.id,
                        backupPath |-> now, timestamp |-> now])>>]

\* the rest of loadOrCreateMasterKey after `await this.generateMasterKey()`:
\* the key becomes the master key, then is written, then logged
createMasterKey(generated, keyFile, io) ==
  IF io \in {"writeFails", "writeTruncates"}
  THEN [ok |-> FALSE, error |-> "writeFileSync failed", masterKey |-> generated,
        keyFile |-> IF io = "writeTruncates" THEN Garbage ELSE keyFile,
        events |-> <<LogError("Failed to load/create master key:", "writeFileSync failed")>>]
  ELSE [ok |-> TRUE, error |-> Null, masterKey |-> generated,
        keyFile |-> Stringify(generated),
        events |-> <<AuditEvent("Encryption Key Access",
                       [action |-> "master_key_loaded", keyId |-> generated.id,
                        algorithm |-> algorithm, compliance |-> "HIPAA"])>>]

(***************************************************************************)
(* EncryptionService: files                                                *)
(***************************************************************************)
\* this.tagLength
tagLength == 16

\* a file of plain bytes; an encrypted file is the 4-byte length and the
\* metadata, then the ciphertext, then (once appended) the tag as its last
\* tagLength bytes
PlainFile(bytes) == [exists |-> TRUE, bytes |-> bytes]

EmptyFile == PlainFile(<< >>)

FileBytes(file) == IF "bytes" \in DOMAIN file THEN file.bytes ELSE file

\* input.slice(4 + metadataLength, input.length - tagLength) and
\* input.slice(input.length - tagLength) of a file read whole
encryptedContentOf(file) ==
  IF "tail" \in DOMAIN file THEN file.content
  ELSE [allButLast |-> tagLength, of |-> file.content]

tagOf(file) ==
  IF "tail" \in DOMAIN file THEN file.tail
  ELSE [last |-> tagLength, of |-> file.content]

\* EncryptionService.encryptFile up to the promise it returns, d the outcome
\* of its deriveKey call: the stream that will write outputPath
encryptFileWith(inputPath, outputPath, context, d, files, rand, now) ==
  IF ~d.ok
  THEN [ok |-> FALSE, error |-> d.error, keyStore |-> d.keyStore, rand |-> rand,
        streams |-> << >>,
        events |-> d.events \o <<LogError("File encryption failed:", d.error)>>]
  ELSE IF ~files[inputPath].exists
  THEN [ok |-> FALSE, error |-> "ENOENT: no such file or directory, stat",
        keyStore |-> d.keyStore, rand |-> rand + 1,
        streams |-> <<[phase |-> "doomed", outputPath |-> outputPath]>>,
        events |-> d.events \o <<LogError("File encryption failed:",
                                    "ENOENT: no such file or directory, stat")>>]
  ELSE [ok |-> TRUE, error |-> Null, keyStore |-> d.keyStore, rand |-> rand + 1,
        streams |-> <<[phase |-> "writing", inputPath |-> inputPath,
                       outputPath |-> outputPath, key |-> d.value, context |-> context,
                       ciphertext |-> << >>,
                       metadata |-> [algorithm |-> algorithm,
                                     iv |-> Base64(RandomBytes(rand + 1)),
                                     context |-> context, timestamp |-> now,
                                     originalSize |-> Len(FileBytes(files[inputPath]))]]>>,
        events |-> d.events]

encryptFile(inputPath, outputPath, context, userKey, masterKey, keyStore, files, rand, now) ==
  encryptFileWith(inputPath, outputPath, context,
                  deriveKey(context, userKey, masterKey, keyStore), files, rand, now)

\* the write stream has written all it was given: the header and the
\* ciphertext of what the read stream read (nothing but the file itself,
\* emptied, when encryptFile threw after creating the stream)
streamWritten(stream, files) ==
  IF stream.phase = "doomed" THEN EmptyFile
  ELSE [exists |-> TRUE, metadata |-> stream.metadata,
        content |-> GcmEncrypt(EvpBytesToKey(stream.key),
                               FileBytes(files[stream.inputPath]))]

\* a handler that appends the tag the cipher had before any ciphertext
tagBeforeCiphertext(stream, file) ==
  IF file.exists /\ "content" \in DOMAIN file /\ "tail" \notin DOMAIN file
  THEN [exists |-> TRUE, metadata |-> file.metadata, content |-> file.content,
        tail |-> GcmTag(EvpBytesToKey(stream.key), << >>)]
  ELSE [exists |-> TRUE, appendedTo |-> file]

\* the 'finish' handler of encryptFile: fs.appendFileSync(outputPath, tag),
\* the tag being that of the ciphertext the cipher produced
tagAppended(stream, file) ==
  IF file.exists /\ "content" \in DOMAIN file /\ "tail" \notin DOMAIN file
  THEN [exists |-> TRUE, metadata |-> file.metadata, content |-> file.content,
        tail |-> GcmTag(EvpBytesToKey(stream.key), stream.ciphertext)]
  ELSE [exists |-> TRUE, appendedTo |-> file]

\* what the 'finish' handler hands to logger.auditLog
encryptFileFinished(stream) ==
  <<AuditEvent("File Encryption",
      [inputPath |-> stream.inputPath, outputPath |-> stream.outputPath,
       context |-> stream.context, originalSize |-> stream.metadata.originalSize])>>

\* EncryptionService.decryptFile after the header is parsed and the
\* algorithm checked, d the outcome of its deriveKey call
decryptFileWith(file, inputPath, outputPath, context, d, files) ==
  IF ~d.ok
  THEN [ok |-> FALSE, error |-> d.error, keyStore |-> d.keyStore, files |-> files,
        events |-> d.events \o <<LogError("File decryption failed:", d.error)>>]
  ELSE IF ~GcmVerifies(EvpBytesToKey(d.value), encryptedContentOf(file), tagOf(file))
  THEN [ok |-> FALSE, error |-> AuthFailure, keyStore |-> d.keyStore, files |-> files,
        events |-> d.events \o <<LogError("File decryption failed:", AuthFailure)>>]
  ELSE [ok |-> TRUE, error |-> Null, keyStore |-> d.keyStore, value |-> file.metadata,
        files |-> [files EXCEPT ![outputPath] =
                     PlainFile(GcmDecrypt(EvpBytesToKey(d.value), encryptedContentOf(file)))],
        events |-> d.events \o <<AuditEvent("File Decryption",
                      [inputPath |-> inputPath, outputPath |-> outputPath,
                       context |-> context,
                       decryptedSize |->
                         Len(GcmDecrypt(EvpBytesToKey(d.value),
                                        encryptedContentOf(file)))])>>]

decryptFileFailed(error, keyStore, files) ==
  [ok |-> FALSE, error |-> error, keyStore |-> keyStore, files |-> files,
   events |-> <<LogError("File decryption failed:", error)>>]

\* EncryptionService.decryptFile
decryptFile(inputPath, outputPath, context, userKey, masterKey, keyStore, files) ==
  IF ~files[inputPath].exists
  THEN decryptFileFailed("ENOENT: no such file or directory, open", keyStore, files)
  ELSE IF "metadata" \notin DOMAIN files[inputPath]
  THEN decryptFileFailed("SyntaxError: Unexpected token in JSON", keyStore, files)
  ELSE IF files[inputPath].metadata.algorithm # algorithm
  THEN decryptFileFailed("Unsupported encryption algorithm", keyStore, files)
  ELSE decryptFileWith(files[inputPath], inputPath, outputPath, context,
                       deriveKey(context, userKey, masterKey, keyStore), files)

\* EncryptionService.cleanup
cleanup(masterKey, keyStore) == [masterKey |-> NoMasterKey, keyStore |-> << >>]

(***************************************************************************)
(* State                                                                   *)
(***************************************************************************)
VARIABLES
  deidentificationMap,  \* PrivacyService.deidentificationMap: mapId -> record
  uuidCount,            \* identifiers drawn from crypto.randomUUID so far
  now,                  \* the wall clock, in hours
  calls,                \* deidentify calls made so far
  lastIndex,            \* category -> lastIndex of its pattern in this.phiPatterns
  scans,                \* the calls of detectPHI so far: text and list returned
  ret,                  \* the last call: its arguments and how it ended
  events,               \* the audit and security events the last call emitted
  masterKey,            \* EncryptionService.masterKey
  keyStore,             \* EncryptionService.keyStore: cache key -> derived key
  keyFile,              \* the file keys/master.key
  startFile,            \* keys/master.key as the constructor found it
  backups,              \* keys/master.key.backup.<timestamp>: timestamp -> file
  tasks,                \* continuations of awaits not yet run, oldest first
  streams,              \* write streams of encryptFile not yet finished
  files,                \* the files encryptFile and decryptFile work on
  randCount,            \* draws of crypto.randomBytes so far
  held,                 \* the payload the caller holds, and how it was made
  used                  \* rotations and encryptions started so far, and
                        \* whether cleanup() has been called

pvars == <<deidentificationMap, uuidCount, now, calls, lastIndex, scans>>

\* the state of the EncryptionService and of the files it works on
evars == <<masterKey, keyStore, keyFile, startFile, backups, tasks, streams, files,
           randCount, held, used>>

vars == <<deidentificationMap, uuidCount, now, calls, lastIndex, scans, ret, events,
          masterKey, keyStore, keyFile, startFile, backups, tasks, streams, files,
          randCount, held, used>>

(***************************************************************************)
(* Bounds and inputs                                                       *)
(***************************************************************************)
MaxDeidentify == 2

TickHours == 12

MaxClock == 36

Modes == {"replace", "remove", "hash"}

Admin == StringUser(<<"a","d","m","i","n">>)

UserIds == {NullUser, StringUser(<< >>), StringUser(<<"g","u","e","s","t">>), NumberUser(7), Admin,
            StringUser(<<"d","r"," ","p","h","y","s","i","c","i","a","n">>)}

UnknownMapId == "no-such-map"

MaxScans == 3

MaxRotations == 2

MaxEncrypt == 1

\* the caller holds no payload
NoPayload == [none |-> TRUE]

NothingUsed == [rotate |-> 0, encrypt |-> 0, encryptFile |-> 0, cleaned |-> FALSE]

\* the key file of an earlier run
PriorKey == generateMasterKey(-2, -1, 0)

\* key files whose stored digest is not the digest of their key, salt, id
TamperedKeyFiles ==
  {Stringify([PriorKey EXCEPT !.key = Base64(FlipBit(FromBase64(@)))]),
   Stringify([PriorKey EXCEPT !.salt = Base64(FlipBit(FromBase64(@)))]),
   Stringify([PriorKey EXCEPT !.id = "uuid-x"]),
   Stringify([PriorKey EXCEPT !.verification = FlipBit(@)])}

\* a key file without its digest
UnsignedKeyFile ==
  Stringify([id |-> PriorKey.id, key |-> PriorKey.key, salt |-> PriorKey.salt])

KeyFiles == {NoFile, Stringify(PriorKey), Garbage, UnsignedKeyFile} \cup TamperedKeyFiles

CtxA == <<"a">>

CtxAB == <<"a","b">>

KeyB == <<"b">>

Contexts == {CtxA, CtxAB}

UserKeys == {<< >>, KeyB, SystemKey}

Plaintext == <<"p","h","i">>

\* what a caller may do to a payload it holds before handing it to decrypt
Tampers == {"none", "tag", "data", "algorithm"}

Tamper(payload, how) ==
  CASE how = "tag" -> [payload EXCEPT !.tag = Base64(FlipBit(FromBase64(@)))]
    [] how = "data" -> [payload EXCEPT !.data = Base64(FlipBit(FromBase64(@)))]
    [] how = "algorithm" -> [payload EXCEPT !.algorithm = "aes-256-cbc"]
    [] OTHER -> payload

\* the files of the file operations
PlainPath == "record.txt"

EncPath == "record.enc"

OutPath == "record.out"

\* what a caller holds from an earlier run of the service on PriorKey
PriorHeld ==
  [payload |-> encrypt(Plaintext, CtxA, << >>, PriorKey, << >>, -3, 0).value,
   data |-> Plaintext, context |-> CtxA, userKey |-> << >>, keyId |-> PriorKey.id]

StartFiles == (PlainPath :> PlainFile(Plaintext)) @@ (EncPath :> NoFile) @@ (OutPath :> NoFile)

(***************************************************************************)
(* Operations of the PrivacyService                                        *)
(***************************************************************************)
\* no EncryptionService has been constructed
NoEncryptionService ==
  /\ masterKey = NoMasterKey
  /\ keyStore = << >>
  /\ keyFile = NoFile
  /\ startFile = NoFile
  /\ backups = << >>
  /\ tasks = << >>
  /\ streams = << >>
  /\ files = << >>
  /\ randCount = 0
  /\ held = NoPayload
  /\ used = NothingUsed

Init ==
  /\ deidentificationMap = << >>
  /\ uuidCount = 0
  /\ now = 0
  /\ calls = 0
  /\ lastIndex = FreshIndex
  /\ scans = << >>
  /\ ret = [op |-> "none"]
  /\ events = << >>
  /\ NoEncryptionService

DeidentifyCall(text, mode, generateMap, r) ==
  /\ calls < MaxDeidentify
  /\ calls' = calls + 1
  /\ deidentificationMap' = r.store
  /\ uuidCount' = r.uuid
  /\ events' = r.events
  /\ ret' = [op |-> "deidentify", text |-> text, mode |-> mode,
             generateMap |-> generateMap, ok |-> r.ok, error |-> r.error,
             value |-> r.value, stored |-> DOMAIN r.store \ DOMAIN deidentificationMap]
  /\ UNCHANGED now
  /\ UNCHANGED evars

\* the scan a call makes: the list is noted, the patterns are left as
\* matchAll leaves them
Scanned(text, detections) ==
  /\ scans' = Append(scans, [text |-> text, value |-> detections])
  /\ lastIndex' = lastIndexAfterDetect(text, lastIndex)

DeidentifyScanned(text, mode, generateMap, detections) ==
  /\ Scanned(text, detections)
  /\ DeidentifyCall(text, mode, generateMap,
       deidentifyDetected(text, mode, generateMap, deidentificationMap, uuidCount, now,
                          detections))

Deidentify(text, mode, generateMap) ==
  DeidentifyScanned(text, mode, generateMap, detectPHIWith(text, lastIndex))

DetectPHIScanned(text, detections) ==
  /\ Len(scans) < MaxScans
  /\ Scanned(text, detections)
  /\ ret' = [op |-> "detectPHI", text |-> text, value |-> detections]
  /\ events' = detectPHIEvents(text, detections)
  /\ UNCHANGED <<deidentificationMap, uuidCount, now, calls>>
  /\ UNCHANGED evars

\* a direct call of detectPHI
DetectPHI(text) == DetectPHIScanned(text, detectPHIWith(text, lastIndex))

\* the texts a caller hands to reidentify: what the last deidentify call
\* returned, or the input texts themselves
ReidentifyTexts ==
  Texts \cup (IF ret.op = "deidentify" /\ ret.ok THEN {ret.value.text} ELSE {})

ReidentifyCall(deidentifiedText, mapId, userId, r) ==
  /\ events' = r.events
  /\ ret' = [op |-> "reidentify", text |-> deidentifiedText, mapId |-> mapId,
             userId |-> userId, ok |-> r.ok, error |-> r.error, value |-> r.value,
             at |-> now,
             created |-> IF mapId \in DOMAIN deidentificationMap
                         THEN deidentificationMap[mapId].timestamp ELSE -1]
  /\ UNCHANGED pvars
  /\ UNCHANGED evars

Reidentify(deidentifiedText, mapId, userId) ==
  ReidentifyCall(deidentifiedText, mapId, userId,
    reidentify(deidentifiedText, mapId, userId, deidentificationMap, now))

CleanupExpiredMaps ==
  /\ deidentificationMap' = cleanupExpiredMaps(deidentificationMap, now)
  /\ events' = << >>
  /\ ret' = [op |-> "cleanupExpiredMaps",
             removed |-> DOMAIN deidentificationMap \ DOMAIN deidentificationMap']
  /\ UNCHANGED <<uuidCount, now, calls, lastIndex, scans>>
  /\ UNCHANGED evars

\* a direct call of generateConsistentHash
GenerateConsistentHash(text, type) ==
  /\ ret' = [op |-> "generateConsistentHash", text |-> text, type |-> type,
             value |-> generateConsistentHash(text, type)]
  /\ events' = << >>
  /\ UNCHANGED pvars
  /\ UNCHANGED evars

\* time passes between calls
Tick ==
  /\ now + TickHours <= MaxClock
  /\ now' = now + TickHours
  /\ UNCHANGED <<deidentificationMap, uuidCount, calls, lastIndex, scans, ret, events>>
  /\ UNCHANGED evars

(***************************************************************************)
(* Operations of the EncryptionService                                     *)
(***************************************************************************)
\* new EncryptionService() on a key file: init() runs loadOrCreateMasterKey
\* up to its first await, r its outcome
Constructed(file, r) ==
  /\ deidentificationMap = << >>
  /\ calls = 0
  /\ lastIndex = FreshIndex
  /\ scans = << >>
  /\ now = 0
  /\ startFile = file
  /\ keyFile = file
  /\ masterKey = r.masterKey
  /\ keyStore = << >>
  /\ backups = << >>
  /\ tasks = IF r.state = "creating"
             THEN <<[kind |-> "create", key |-> r.pending]>> ELSE << >>
  /\ uuidCount = IF r.state = "creating" THEN 1 ELSE 0
  /\ randCount = IF r.state = "creating" THEN 2 ELSE 0
  /\ streams = << >>
  /\ files = StartFiles
  /\ held = IF file.exists THEN PriorHeld ELSE NoPayload
  /\ used = NothingUsed
  /\ ret = [op |-> "constructor", state |-> r.state, error |-> r.error]
  /\ events = r.events

InitEncryption(file) == Constructed(file, loadOrCreateMasterKey(file, 0, 0, 0))

\* the continuation of loadOrCreateMasterKey after its await
CreateFinished(r) ==
  /\ tasks' = Tail(tasks)
  /\ masterKey' = r.masterKey
  /\ keyFile' = r.keyFile
  /\ events' = r.events
  /\ ret' = [op |-> "init", ok |-> r.ok, error |-> r.error]
  /\ UNCHANGED <<pvars, keyStore, startFile, backups, streams, files, randCount, held, used>>

CreateFinish(io) ==
  /\ tasks # << >>
  /\ Head(tasks).kind = "create"
  /\ CreateFinished(createMasterKey(Head(tasks).key, keyFile, io))

DeriveKeyCall(context, userKey, r) ==
  /\ keyStore' = r.keyStore
  /\ events' = r.events
  /\ ret' = [op |-> "deriveKey", context |-> context, userKey |-> userKey,
             ok |-> r.ok, error |-> r.error, value |-> IF r.ok THEN r.value ELSE Null]
  /\ UNCHANGED <<pvars, masterKey, keyFile, startFile, backups, tasks, streams, files,
                 randCount, held, used>>

DeriveKey(context, userKey) ==
  DeriveKeyCall(context, userKey, deriveKey(context, userKey, masterKey, keyStore))

EncryptCall(data, context, userKey, r) ==
  /\ used.encrypt < MaxEncrypt
  /\ used' = [used EXCEPT !.encrypt = @ + 1]
  /\ keyStore' = r.keyStore
  /\ randCount' = r.rand
  /\ held' = IF r.ok
             THEN [payload |-> r.value, data |-> data, context |-> context,
                   userKey |-> userKey, keyId |-> masterKey.id]
             ELSE held
  /\ events' = r.events
  /\ ret' = [op |-> "encrypt", context |-> context, userKey |-> userKey,
             ok |-> r.ok, error |-> r.error]
  /\ UNCHANGED <<pvars, masterKey, keyFile, startFile, backups, tasks, streams, files>>

Encrypt(data, context, userKey) ==
  EncryptCall(data, context, userKey,
    encrypt(data, context, userKey, masterKey, keyStore, randCount, now))

DecryptCall(encryptedData, how, context, userKey, r) ==
  /\ keyStore' = r.keyStore
  /\ events' = r.events
  /\ ret' = [op |-> "decrypt", payload |-> encryptedData, tamper |-> how,
             context |-> context, userKey |-> userKey, ok |-> r.ok, error |-> r.error,
             value |-> IF r.ok THEN r.value ELSE Null,
             made |-> [data |-> held.data, context |-> held.context,
                       userKey |-> held.userKey, keyId |-> held.keyId]]
  /\ UNCHANGED <<pvars, masterKey, keyFile, startFile, backups, tasks, streams, files,
                 randCount, held, used>>

\* decrypt of the payload held, tampered with or not
Decrypt(how, context, userKey) ==
  /\ held # NoPayload
  /\ DecryptCall(Tamper(held.payload, how), how, context, userKey,
       decrypt(Tamper(held.payload, how), context, userKey, masterKey, keyStore))

\* rotateMasterKey up to its await: the new key is generated
RotateStart ==
  /\ used.rotate < MaxRotations
  /\ used' = [used EXCEPT !.rotate = @ + 1]
  /\ tasks' = Append(tasks, [kind |-> "rotate",
                             key |-> generateMasterKey(randCount, uuidCount, now),
                             cachedAtStart |-> DOMAIN keyStore])
  /\ randCount' = randCount + 2
  /\ uuidCount' = uuidCount + 1
  /\ events' = << >>
  /\ ret' = [op |-> "rotateMasterKey", pending |-> TRUE]
  /\ UNCHANGED <<deidentificationMap, now, calls, lastIndex, scans, masterKey, keyStore,
                 keyFile, startFile,
                 backups, streams, files, held>>

Rotated(io, r) ==
  /\ tasks' = Tail(tasks)
  /\ masterKey' = r.masterKey
  /\ keyStore' = r.keyStore
  /\ keyFile' = r.keyFile
  /\ backups' = r.backups
  /\ events' = r.events
  /\ ret' = [op |-> "rotateMasterKey", pending |-> FALSE, ok |-> r.ok, error |-> r.error,
             io |-> io, at |-> now, oldKey |-> masterKey, newKey |-> Head(tasks).key,
             oldFile |-> keyFile, cachedAtStart |-> Head(tasks).cachedAtStart,
             cachedBefore |-> DOMAIN keyStore]
  /\ UNCHANGED <<pvars, startFile, streams, files, randCount, held, used>>

\* the continuation of rotateMasterKey after its await, to its end
RotateFinish(io) ==
  /\ tasks # << >>
  /\ Head(tasks).kind = "rotate"
  /\ Rotated(io, rotateMasterKey(Head(tasks).key, masterKey, keyStore, keyFile,
                                 backups, now, io))

Cleanup ==
  /\ masterKey' = cleanup(masterKey, keyStore).masterKey
  /\ keyStore' = cleanup(masterKey, keyStore).keyStore
  /\ events' = << >>
  /\ ret' = [op |-> "cleanup"]
  /\ used' = [used EXCEPT !.cleaned = TRUE]
  /\ UNCHANGED <<pvars, keyFile, startFile, backups, tasks, streams, files, randCount,
                 held>>

EncryptFileCall(inputPath, outputPath, context, userKey, r) ==
  /\ used.encryptFile < MaxEncrypt
  /\ used' = [used EXCEPT !.encryptFile = @ + 1]
  /\ keyStore' = r.keyStore
  /\ randCount' = r.rand
  /\ streams' = streams \o r.streams
  /\ events' = r.events
  /\ ret' = [op |-> "encryptFile", pending |-> r.ok, ok |-> r.ok, error |-> r.error,
             outputPath |-> outputPath, inputPath |-> inputPath, context |-> context,
             userKey |-> userKey, started |-> TRUE]
  /\ UNCHANGED <<pvars, masterKey, keyFile, startFile, backups, tasks, files, held>>

\* encryptFile up to the promise it returns
EncryptFileStart(inputPath, outputPath, context, userKey) ==
  EncryptFileCall(inputPath, outputPath, context, userKey,
    encryptFile(inputPath, outputPath, context, userKey, masterKey, keyStore, files,
                randCount, now))

RemoveAt(seq, i) == SubSeq(seq, 1, i - 1) \o SubSeq(seq, i + 1, Len(seq))

\* a write stream has written what was piped into it; stream events come
\* after the continuations of awaits
EncryptFileFlush(i) ==
  /\ tasks = << >>
  /\ streams[i].phase \in {"writing", "doomed"}
  /\ files' = [files EXCEPT ![streams[i].outputPath] = streamWritten(streams[i], files)]
  /\ streams' = IF streams[i].phase = "doomed" THEN RemoveAt(streams, i)
                ELSE [streams EXCEPT ![i].phase = "flushed",
                                     ![i].ciphertext = streamWritten(streams[i], files).content]
  /\ UNCHANGED <<pvars, ret, events, masterKey, keyStore, keyFile, startFile, backups,
                 tasks, randCount, held, used>>

\* the 'finish' event of a write stream
EncryptFileFinish(i) ==
  /\ tasks = << >>
  /\ streams[i].phase = "flushed"
  /\ files' = [files EXCEPT ![streams[i].outputPath] = tagAppended(streams[i], @)]
  /\ streams' = RemoveAt(streams, i)
  /\ events' = encryptFileFinished(streams[i])
  /\ ret' = [op |-> "encryptFile", pending |-> FALSE, ok |-> TRUE, error |-> Null,
             outputPath |-> streams[i].outputPath, inputPath |-> streams[i].inputPath,
             context |-> streams[i].context, stream |-> streams[i], started |-> FALSE]
  /\ UNCHANGED <<pvars, masterKey, keyStore, keyFile, startFile, backups, tasks,
                 randCount, held, used>>

\* someone flips a bit of the tag of an encrypted file
TamperFile(path) ==
  /\ "tail" \in DOMAIN files[path]
  /\ "flipped" \notin DOMAIN files[path].tail
  /\ files' = [files EXCEPT ![path].tail = FlipBit(@)]
  /\ UNCHANGED <<pvars, ret, events, masterKey, keyStore, keyFile, startFile, backups,
                 tasks, streams, randCount, held, used>>

DecryptFileCall(inputPath, outputPath, context, userKey, r) ==
  /\ keyStore' = r.keyStore
  /\ files' = r.files
  /\ events' = r.events
  /\ ret' = [op |-> "decryptFile", input |-> files[inputPath], inputPath |-> inputPath,
             outputPath |-> outputPath,
             before |-> files[outputPath], context |-> context, userKey |-> userKey,
             ok |-> r.ok, error |-> r.error]
  /\ UNCHANGED <<pvars, masterKey, keyFile, startFile, backups, tasks, streams,
                 randCount, held, used>>

DecryptFile(inputPath, outputPath, context, userKey) ==
  DecryptFileCall(inputPath, outputPath, context, userKey,
    decryptFile(inputPath, outputPath, context, userKey, masterKey, keyStore, files))

(***************************************************************************)
(* De-identification and its reversal by an authorized requester           *)
(***************************************************************************)
NextDeidentify ==
  \/ \E text \in Texts, mode \in Modes, generateMap \in BOOLEAN :
       Deidentify(text, mode, generateMap)
  \/ \E text \in ReidentifyTexts,
        mapId \in DOMAIN deidentificationMap \cup {UnknownMapId} :
       Reidentify(text, mapId, Admin)

SpecDeidentify == Init /\ [][NextDeidentify]_vars

(***************************************************************************)
(* De-identification of texts with overlapping detections                  *)
(***************************************************************************)
NextOverlap ==
  \E text \in OverlapTexts, mode \in Modes, generateMap \in BOOLEAN :
    Deidentify(text, mode, generateMap)

SpecOverlap == Init /\ [][NextOverlap]_vars

(***************************************************************************)
(* Re-identification by any requester                                      *)
(***************************************************************************)
NextAuthorization ==
  \/ Deidentify(TextTwoNames, "replace", TRUE)
  \/ \E text \in ReidentifyTexts, userId \in UserIds,
        mapId \in DOMAIN deidentificationMap \cup {UnknownMapId} :
       Reidentify(text, mapId, userId)

SpecAuthorization == Init /\ [][NextAuthorization]_vars

(***************************************************************************)
(* The de-identification map over time                                     *)
(***************************************************************************)
NextExpiry ==
  \/ \E text \in {TextTwoNames, TextZipName} : Deidentify(text, "replace", TRUE)
  \/ \E mapId \in DOMAIN deidentificationMap \cup {UnknownMapId} :
       Reidentify(TextNone, mapId, Admin)
  \/ CleanupExpiredMaps
  \/ Tick

SpecExpiry == Init /\ [][NextExpiry]_vars

(***************************************************************************)
(* Scans of texts, by detectPHI and by deidentify                          *)
(***************************************************************************)
NextDetect ==
  \/ \E text \in Texts : DetectPHI(text)
  \/ \E text \in Texts, generateMap \in BOOLEAN : Deidentify(text, "replace", generateMap)

SpecDetect == Init /\ [][NextDetect]_vars

(***************************************************************************)
(* Pseudonyms of mode hash                                                 *)
(***************************************************************************)
\* matched texts handed to generateConsistentHash
HashTexts == {<<"A","l"," ","B","o">>, <<"1","2","3","4","5">>}

NextHash ==
  \/ \E text \in {TextTwoNames, TextZipName}, generateMap \in BOOLEAN :
       Deidentify(text, "hash", generateMap)
  \/ \E text \in HashTexts, type \in Types : GenerateConsistentHash(text, type)

SpecHash == Init /\ [][NextHash]_vars

(***************************************************************************)
(* Start of the service on any key file                                    *)
(***************************************************************************)
InitStartup == \E file \in KeyFiles : InitEncryption(file)

NextStartup ==
  \/ \E io \in IoOutcomes \ {"copyFails"} : CreateFinish(io)
  \/ DeriveKey(CtxA, << >>)
  \/ Encrypt(Plaintext, CtxA, << >>)
  \/ Decrypt("none", CtxA, << >>)
  \/ RotateStart
  \/ \E io \in IoOutcomes : RotateFinish(io)
  \/ Cleanup

SpecStartup == InitStartup /\ [][NextStartup]_vars

(***************************************************************************)
(* Rotation of the master key among derivations                            *)
(***************************************************************************)
InitLoaded == InitEncryption(Stringify(PriorKey))

NextRotation ==
  \/ \E userKey \in {<< >>, KeyB} : DeriveKey(CtxA, userKey)
  \/ Encrypt(Plaintext, CtxA, << >>)
  \/ Decrypt("none", CtxA, << >>)
  \/ RotateStart
  \/ \E io \in IoOutcomes : RotateFinish(io)
  \/ Cleanup
  \/ Tick

SpecRotation == InitLoaded /\ [][NextRotation]_vars

(***************************************************************************)
(* Derivation for several contexts and user keys                           *)
(***************************************************************************)
NextDerive ==
  \/ \E context \in Contexts, userKey \in UserKeys : DeriveKey(context, userKey)
  \/ Cleanup

SpecDerive == InitLoaded /\ [][NextDerive]_vars

(***************************************************************************)
(* Encryption and decryption of payloads and files                         *)
(***************************************************************************)
NextCipher ==
  \/ Encrypt(Plaintext, CtxA, << >>)
  \/ \E how \in Tampers, context \in Contexts, userKey \in {<< >>, KeyB} :
       Decrypt(how, context, userKey)
  \/ EncryptFileStart(PlainPath, EncPath, CtxA, << >>)
  \/ \E i \in DOMAIN streams : EncryptFileFlush(i)
  \/ \E i \in DOMAIN streams : EncryptFileFinish(i)
  \/ TamperFile(EncPath)
  \/ \E context \in Contexts : DecryptFile(EncPath, OutPath, context, << >>)

SpecCipher == InitLoaded /\ [][NextCipher]_vars

(***************************************************************************)
(* The example of a call, a name and a phone number                        *)
(***************************************************************************)
NextExample ==
  \/ \E mode \in Modes, generateMap \in BOOLEAN : Deidentify(TextExample, mode, generateMap)
  \/ \E text \in {TextExampleReplaced}
                  \cup (IF ret.op = "deidentify" /\ ret.ok THEN {ret.value.text} ELSE {}),
        mapId \in DOMAIN deidentificationMap \cup {UnknownMapId},
        userId \in {Admin, NullUser} :
       Reidentify(text, mapId, userId)

SpecExample == Init /\ [][NextExample]_vars

(***************************************************************************)
(* Inserts, reads and sweeps of the mapping store                          *)
(***************************************************************************)
StoreTexts == {TextTwoNames, TextZipName}

\* what a caller holds of a text after deidentify in mode replace
RewrittenTexts == {deidentify(text, "replace", FALSE, << >>, 0, 0).value.text : text \in StoreTexts}

NextStore ==
  \/ \E text \in StoreTexts : Deidentify(text, "replace", TRUE)
  \/ \E text \in RewrittenTexts,
        mapId \in DOMAIN deidentificationMap \cup {UnknownMapId} :
       Reidentify(text, mapId, Admin)
  \/ CleanupExpiredMaps
  \/ Tick

SpecStore == Init /\ [][NextStore]_vars

(***************************************************************************)
(* Payloads of any context and user key, decrypted under any other         *)
(***************************************************************************)
NextPairs ==
  \/ \E context \in Contexts, userKey \in UserKeys : DeriveKey(context, userKey)
  \/ \E context \in Contexts, userKey \in UserKeys : Encrypt(Plaintext, context, userKey)
  \/ \E context \in Contexts, userKey \in UserKeys : Decrypt("none", context, userKey)

SpecPairs == InitLoaded /\ [][NextPairs]_vars

(***************************************************************************)
(* The audit trail of both services                                        *)
(***************************************************************************)
AuditTexts == {TextNone, TextTwoNames, TextZipName}

\* The two services share no state: a behaviour calls the one or the other.
PrivacyIdle == calls = 0 /\ scans = << >>

EncryptionIdle == used = NothingUsed /\ keyStore = << >> /\ tasks = << >>

PrivacyStep ==
  \/ \E text \in AuditTexts : DetectPHI(text)
  \/ \E text \in AuditTexts, mode \in Modes, generateMap \in BOOLEAN :
       Deidentify(text, mode, generateMap)
  \/ \E text \in {TextTwoNames}
                  \cup (IF ret.op = "deidentify" /\ ret.ok THEN {ret.value.text} ELSE {}),
        mapId \in DOMAIN deidentificationMap \cup {UnknownMapId},
        userId \in {Admin, NullUser} :
       Reidentify(text, mapId, userId)

EncryptionStep ==
  \/ DeriveKey(CtxA, << >>)
  \/ Encrypt(Plaintext, CtxA, << >>)
  \/ \E how \in {"none", "tag"} : Decrypt(how, CtxA, << >>)
  \/ RotateStart
  \/ \E io \in IoOutcomes : RotateFinish(io)
  \/ EncryptFileStart(PlainPath, EncPath, CtxA, << >>)
  \/ \E i \in DOMAIN streams : EncryptFileFlush(i)
  \/ \E i \in DOMAIN streams : EncryptFileFinish(i)
  \/ TamperFile(EncPath)
  \/ DecryptFile(EncPath, OutPath, CtxA, << >>)

NextAudit ==
  \/ EncryptionIdle /\ PrivacyStep
  \/ PrivacyIdle /\ EncryptionStep

SpecAudit == InitLoaded /\ [][NextAudit]_vars

(***************************************************************************)
(* Properties of the PrivacyService                                        *)
(***************************************************************************)
\* no two detections share a character
NonOverlapping(ds) ==
  \A i, j \in 1..Len(ds) :
    i # j => \/ ds[i].index + ds[i].length <= ds[j].index
             \/ ds[j].index + ds[j].length <= ds[i].index

Authorized(userId) == isAuthorizedForReidentification(userId).truthy

\* C1: round trip.  A deidentify call in mode replace with generateMap true,
\* on a text whose detections do not overlap, returns, and reidentify of the
\* returned text under the returned mapping id by an authorized requester
\* gives back the original text.
RoundTripReplace ==
  (/\ ret.op = "deidentify"
   /\ ret.mode = "replace"
   /\ ret.generateMap
   /\ NonOverlapping(detectPHI(ret.text)))
  => /\ ret.ok
     /\ reidentify(ret.value.text, ret.value.mapId, Admin,
                   deidentificationMap, now).value = ret.text

\* The reversal alone, with the id the store registered: an authorized
\* reidentify of the replace-mode rewriting of a text without overlapping
\* detections, under the id of the record made from that text in mode
\* replace, gives back the text.  (The stored record names its source text
\* by textHash.)
RoundTripByStoredId ==
  (/\ ret.op = "reidentify"
   /\ ret.ok
   /\ ret.mapId \in DOMAIN deidentificationMap
   /\ LET source == deidentificationMap[ret.mapId].textHash.sha256
      IN  /\ NonOverlapping(detectPHI(source))
          /\ \A k \in 1..Len(deidentificationMap[ret.mapId].map) :
               deidentificationMap[ret.mapId].map[k].replacement
                 \in {initializePHIPatterns[n].replacement : n \in 1..Len(initializePHIPatterns)}
          /\ ret.text = deidentify(source, "replace", FALSE, << >>, 0, 0).value.text)
  => ret.value = deidentificationMap[ret.mapId].textHash.sha256

\* C2: a deidentify call with generateMap true on a text with at least one
\* detection returns normally, and the id it returns is the key under which
\* this call's record was stored, the record holding one entry per detection.
DeidentifyReturnsMapId ==
  (/\ ret.op = "deidentify"
   /\ ret.generateMap
   /\ Len(detectPHI(ret.text)) > 0)
  => /\ ret.ok
     /\ ret.stored = {ret.value.mapId}
     /\ Len(deidentificationMap[ret.value.mapId].map) = Len(detectPHI(ret.text))

\* C3: a reidentify call by a requester who fails the authorization policy
\* ends with an error (it throws, so it returns no text), whatever the text and whether or
\* not the mapping id exists; the error of a null or string identity is the
\* authorization error, and the only event emitted is the security event.
UnauthorizedNeverReidentifies ==
  (ret.op = "reidentify" /\ ~Authorized(ret.userId))
  => /\ ~ret.ok
     /\ ret.userId.kind # "number"
          => ret.error = "User not authorized for re-identification"
     /\ Len(events) = 1
     /\ events[1].eventType = "security"

\* C3 witness: an unauthorized requester asked for a mapping that exists
UnauthorizedOnExistingMap ==
  /\ ret.op = "reidentify"
  /\ ~Authorized(ret.userId)
  /\ ret.mapId \in DOMAIN deidentificationMap
  /\ ~ret.ok

\* C4: expiry.  An authorized reidentify of a record created at T, made
\* after T + maxAge, ends with the not-found error, swept or not.
ExpiredMappingNotFound ==
  (/\ ret.op = "reidentify"
   /\ Authorized(ret.userId)
   /\ ret.created # -1
   /\ ret.at > ret.created + maxAge)
  => /\ ~ret.ok
     /\ ret.error = "De-identification map not found"

\* the fixed placeholder tokens of mode replace
PlaceholderTokens ==
  {initializePHIPatterns[n].replacement : n \in 1..Len(initializePHIPatterns)}

\* the entries of the stored records that hold a pseudonym
PseudonymEntries(mapId) ==
  {k \in 1..Len(deidentificationMap[mapId].map) :
     /\ deidentificationMap[mapId].map[k].replacement # << >>
     /\ deidentificationMap[mapId].map[k].replacement \notin PlaceholderTokens}

\* every pseudonym in sight: those of the stored records and that of the
\* last direct call
Pseudonyms ==
  UNION {{[type  |-> deidentificationMap[mapId].map[k].type,
           text  |-> deidentificationMap[mapId].map[k].original,
           token |-> deidentificationMap[mapId].map[k].replacement] :
            k \in PseudonymEntries(mapId)} : mapId \in DOMAIN deidentificationMap}
  \cup (IF ret.op = "generateConsistentHash"
        THEN {[type |-> ret.type, text |-> ret.text, token |-> ret.value]} ELSE {})

\* C11: pseudonyms are determined by category and matched text.  Any two
\* pseudonyms made by the service, in one call or in different calls, are
\* the same token when category and matched text are the same, and
\* different tokens when the text is the same and the categories differ;
\* and the text a call in mode hash returns holds, for each of its
\* detections, the token made for that category and text by any other call.
HashModeDeterministic ==
  \A p, q \in Pseudonyms :
    /\ (p.type = q.type /\ p.text = q.text) => p.token = q.token
    /\ (p.type # q.type /\ p.text = q.text) => p.token # q.token
    /\ (/\ ret.op = "deidentify"
        /\ ret.mode = "hash"
        /\ ret.ok
        /\ \E k \in 1..Len(ret.value.detections) :
             /\ ret.value.detections[k].type = p.type
             /\ ret.value.detections[k].text = p.text)
       => Includes(ret.value.text, p.token)

\* C11 witness: two calls of deidentify in mode hash stored a pseudonym for
\* the same category and text, and a direct call made the pseudonym of that
\* text under another category
SamePairTwiceAndOtherCategory ==
  /\ ret.op = "generateConsistentHash"
  /\ \E a, b \in DOMAIN deidentificationMap :
       /\ a # b
       /\ \E i \in PseudonymEntries(a), j \in PseudonymEntries(b) :
            /\ deidentificationMap[a].map[i].type = deidentificationMap[b].map[j].type
            /\ deidentificationMap[a].map[i].original = deidentificationMap[b].map[j].original
            /\ deidentificationMap[a].map[i].original = ret.text
            /\ deidentificationMap[a].map[i].type # ret.type

\* C12: a deidentify call on a text without detections, in any mode and
\* with generateMap true or false, returns normally, returns the text as it
\* was, and stores no record.
ZeroDetectionsUnchanged ==
  (ret.op = "deidentify" /\ Len(detectPHI(ret.text)) = 0)
  => /\ ret.ok
     /\ ret.value.text = ret.text
     /\ ret.stored = {}

\* The same with generateMap false, and what a call with generateMap true
\* leaves behind: no record.
ZeroDetectionsFrame ==
  (ret.op = "deidentify" /\ Len(detectPHI(ret.text)) = 0)
  => /\ ret.stored = {}
     /\ ~ret.generateMap => (ret.ok /\ ret.value.text = ret.text)

\* C13: authorization comes first.  A reidentify call by a requester who
\* fails the policy never ends with the not-found error of the lookup,
\* whether or not the mapping id exists; every event it emits is the
\* security event carrying the error of the call, and none is the audit
\* event of a re-identification.
AuthorizationBeforeLookup ==
  (ret.op = "reidentify" /\ ~Authorized(ret.userId))
  => /\ ret.error # "De-identification map not found"
     /\ events # << >>
     /\ \A k \in 1..Len(events) :
          /\ events[k].eventType = "security"
          /\ events[k].event = "Unauthorized Re-identification Attempt"
          /\ events[k].event # "Data Re-identification"
          /\ events[k].details.error = ret.error

\* C13 witness: a requester who fails the policy asked for a mapping id
\* that does not exist, while the store holds a record
UnauthorizedOnUnknownMap ==
  /\ ret.op = "reidentify"
  /\ ~Authorized(ret.userId)
  /\ ret.mapId \notin DOMAIN deidentificationMap
  /\ deidentificationMap # << >>
  /\ ~ret.ok

\* C14: order of detections.  The list detectPHI returns is in text order
\* (start offsets never decrease along it), and the list a deidentify call
\* returns is the list of its scan, in the same order.
DetectionsInTextOrder ==
  /\ ret.op = "detectPHI"
       => \A i, j \in 1..Len(ret.value) :
            i < j => ret.value[i].index <= ret.value[j].index
  /\ (ret.op = "deidentify" /\ ret.ok)
       => ret.value.detections = scans[Len(scans)].value

\* Nothing is dropped or merged: the list a deidentify call returns holds
\* the detections of its scan, each as often as the scan found it, also
\* when spans overlap.
DetectionsKept ==
  (ret.op = "deidentify" /\ ret.ok)
  => /\ Len(ret.value.detections) = Len(scans[Len(scans)].value)
     /\ \A k \in 1..Len(scans[Len(scans)].value) :
          Cardinality({j \in 1..Len(ret.value.detections) :
                         ret.value.detections[j] = scans[Len(scans)].value[k]})
            = Cardinality({j \in 1..Len(scans[Len(scans)].value) :
                             scans[Len(scans)].value[j] = scans[Len(scans)].value[k]})

\* C15: the detector is idempotent.  Any two scans of one text made on the
\* instance, by detectPHI or inside deidentify, whatever was scanned in
\* between, returned the same list.
ScansIdentical ==
  \A i, j \in 1..Len(scans) :
    scans[i].text = scans[j].text => scans[i].value = scans[j].value

\* C15 witness: a text with detections was scanned twice, another text was
\* scanned in between, and deidentify was among the calls
RescannedAfterOthers ==
  /\ calls > 0
  /\ \E i, k, j \in 1..Len(scans) :
       /\ i < k
       /\ k < j
       /\ scans[i].text = scans[j].text
       /\ scans[k].text # scans[i].text
       /\ Len(scans[i].value) > 0
       /\ Len(scans[k].value) > 0

(***************************************************************************)
(* Properties of the EncryptionService                                     *)
(***************************************************************************)
\* the tag of a payload does not verify under the key that d derived
TagFails(payload, d) ==
  /\ d.ok
  /\ ~GcmVerifies(EvpBytesToKey(d.value), FromBase64(payload.data), FromBase64(payload.tag))

\* the tag at the end of an encrypted file does not verify under that key
FileTagFails(file, d) ==
  /\ file.exists
  /\ "metadata" \in DOMAIN file
  /\ d.ok
  /\ ~GcmVerifies(EvpBytesToKey(d.value), encryptedContentOf(file), tagOf(file))

\* C5: fail-closed decryption.  A decrypt call on a payload whose tag does
\* not verify under the key derived for the call's context and user key
\* ends with the authentication error and returns nothing; a decryptFile
\* call on a file whose tag does not verify ends with that error and leaves
\* the destination path as it was.
FailClosedDecryption ==
  /\ (/\ ret.op = "decrypt"
      /\ ret.payload.algorithm = algorithm
      /\ TagFails(ret.payload, deriveKey(ret.context, ret.userKey, masterKey, keyStore)))
     => /\ ~ret.ok
        /\ ret.error = AuthFailure
        /\ ret.value = Null
  /\ (/\ ret.op = "decryptFile"
      /\ FileTagFails(ret.input, deriveKey(ret.context, ret.userKey, masterKey, keyStore)))
     => /\ ~ret.ok
        /\ ret.error = AuthFailure
        /\ files[ret.outputPath] = ret.before

\* C5 witness: the payload held came back with one bit of its tag flipped,
\* under the context and user key it was made with, and was refused
FlippedTagRefused ==
  /\ ret.op = "decrypt"
  /\ ret.tamper = "tag"
  /\ ret.context = ret.made.context
  /\ ret.userKey = ret.made.userKey
  /\ ~ret.ok

\* the same for a file: decryptFile refused a file whose tag was flipped
FlippedFileRefused ==
  /\ ret.op = "decryptFile"
  /\ "tail" \in DOMAIN ret.input
  /\ "flipped" \in DOMAIN ret.input.tail
  /\ ~ret.ok
  /\ ~files[ret.outputPath].exists

\* C6: when the constructor found a key file whose digest is not the digest
\* of its key, salt and id, initialization failed with the integrity error,
\* no key was generated in its place, and from then on there is no master
\* key in memory, no derived key, the key file is as it was found, and every
\* deriveKey, encrypt and decrypt call fails.
TamperedKeyNeverUsed ==
  startFile \in TamperedKeyFiles
  => /\ masterKey = NoMasterKey
     /\ keyStore = << >>
     /\ keyFile = startFile
     /\ \A i \in DOMAIN tasks : tasks[i].kind # "create"
     /\ ret.op = "constructor"
          => /\ ret.state = "failed"
             /\ ret.error = "Master key integrity verification failed"
     /\ ret.op \in {"deriveKey", "encrypt", "decrypt"} => ~ret.ok

\* C6 witness: after a start on a tampered key file a payload of the earlier
\* run was handed to decrypt, and refused
TamperedStartThenDecrypt ==
  /\ startFile \in TamperedKeyFiles
  /\ ret.op = "decrypt"
  /\ ret.tamper = "none"
  /\ ~ret.ok

\* C7: rollback.  After a rotation that failed at the copy or at the write,
\* begun when memory and disk held the same record, the master key in
\* memory is the record of before the rotation, and the key file holds it.
FailedRotationRollsBack ==
  (/\ ret.op = "rotateMasterKey"
   /\ ~ret.pending
   /\ ~ret.ok
   /\ ret.oldKey # NoMasterKey
   /\ ret.oldFile = Stringify(ret.oldKey))
  => /\ masterKey = ret.oldKey
     /\ keyFile = Stringify(ret.oldKey)

\* C8: rotation as a critical section.  In every state every cached key is
\* derived from the key and the salt of the master key in memory, so is the
\* key a deriveKey call returns, and at the end of a rotation that succeeded
\* the cache is empty and memory and disk hold the new record.
RotationIsCriticalSection ==
  /\ \A cacheKey \in DOMAIN keyStore :
       /\ masterKey # NoMasterKey
       /\ keyStore[cacheKey].pbkdf2 = FromBase64(masterKey.key)
       /\ keyStore[cacheKey].salt.sha256.salt = FromBase64(masterKey.salt)
  /\ (ret.op = "deriveKey" /\ ret.ok)
     => /\ ret.value.pbkdf2 = FromBase64(masterKey.key)
        /\ ret.value.salt.sha256.salt = FromBase64(masterKey.salt)
  /\ (ret.op = "rotateMasterKey" /\ ~ret.pending /\ ret.ok)
     => /\ keyStore = << >>
        /\ masterKey = ret.newKey
        /\ keyFile = Stringify(ret.newKey)

\* C8 witness: a rotation succeeded, and between its start and its end a
\* key was derived and cached
DerivedDuringRotation ==
  /\ ret.op = "rotateMasterKey"
  /\ ~ret.pending
  /\ ret.ok
  /\ ret.cachedBefore \ ret.cachedAtStart # {}

\* A payload made under an earlier master key, handed to decrypt under the
\* context and user key it was made with, is refused with the
\* authentication error.
OldPayloadRefused ==
  (/\ ret.op = "decrypt"
   /\ ret.tamper = "none"
   /\ ret.context = ret.made.context
   /\ ret.userKey = ret.made.userKey
   /\ masterKey # NoMasterKey
   /\ ret.made.keyId # masterKey.id)
  => /\ ~ret.ok
     /\ ret.error = AuthFailure

\* C9: after a rotation that succeeded, a payload made before it is refused
\* by decrypt, and the record of before the rotation is in the backup file
\* of that rotation, and neither in memory nor in the key file.
OldKeyOnlyInBackup ==
  /\ OldPayloadRefused
  /\ (ret.op = "rotateMasterKey" /\ ~ret.pending /\ ret.ok)
     => /\ ret.at \in DOMAIN backups
        /\ backups[ret.at] = Stringify(ret.oldKey)
        /\ masterKey # ret.oldKey
        /\ keyFile # Stringify(ret.oldKey)

\* C10: the key a deriveKey call returns for a context and a user key is
\* the key derived from the master key with the digest of the master salt,
\* that context and that user key, whatever was derived before.
DerivedPerPair ==
  (ret.op = "deriveKey" /\ ret.ok /\ masterKey # NoMasterKey)
  => ret.value = Pbkdf2(FromBase64(masterKey.key),
                        contextSaltOf(masterKey, ret.context, ret.userKey))

\* C16: after a rotateMasterKey that succeeded, the backup file stamped
\* with the time of the rotation holds what the key file held before it, the
\* master key in memory is the record generated by this rotation, passes the
\* integrity check and has another id than the key it replaced, the key file
\* holds that same record, and the cache of derived keys is empty.
RotationPostcondition ==
  (ret.op = "rotateMasterKey" /\ ~ret.pending /\ ret.ok)
  => /\ ret.at \in DOMAIN backups
     /\ backups[ret.at] = ret.oldFile
     /\ masterKey = ret.newKey
     /\ masterKey # NoMasterKey
     /\ verifyKeyIntegrity(masterKey)
     /\ masterKey.id # ret.oldKey.id
     /\ keyFile = Stringify(masterKey)
     /\ keyStore = << >>

\* C16 witness: a rotation succeeded when keys were cached and when the key
\* file no longer held the master key of memory (an earlier rotation failed
\* at its write)
RotatedWithCacheAndStaleFile ==
  /\ ret.op = "rotateMasterKey"
  /\ ~ret.pending
  /\ ret.ok
  /\ ret.cachedBefore # {}
  /\ ret.oldFile # Stringify(ret.oldKey)

\* C17: first run.  Started without a key file, the service generates a
\* record and awaits it; once init has succeeded that record is the master
\* key and the content of the key file, and a load of the key file accepts it
\* and yields the same record.  Every record generateMasterKey has produced
\* (awaited, in memory, or written to the key file) passes
\* verifyKeyIntegrity.
FirstRunPersistsVerifiedKey ==
  startFile = NoFile
  => /\ ret.op = "constructor"
          => /\ ret.state = "creating"
             /\ Len(tasks) = 1
             /\ tasks[1].kind = "create"
             /\ keyFile = NoFile
     /\ (ret.op = "init" /\ ret.ok)
          => /\ masterKey # NoMasterKey
             /\ keyFile = Stringify(masterKey)
             /\ loadOrCreateMasterKey(keyFile, randCount, uuidCount, now).state = "ready"
             /\ loadOrCreateMasterKey(keyFile, randCount, uuidCount, now).masterKey
                  = masterKey
     /\ \A i \in DOMAIN tasks : verifyKeyIntegrity(tasks[i].key)
     /\ masterKey # NoMasterKey => verifyKeyIntegrity(masterKey)
     /\ Parses(keyFile) => verifyKeyIntegrity(keyFile.json)

\* C17 witness: the service started without a key file and its init has
\* succeeded
FirstRunInitialized ==
  /\ startFile = NoFile
  /\ ret.op = "init"
  /\ ret.ok

\* the rewriting read from left to right: from offset p on, a detection that
\* starts at p gives its replacement and the text resumes after its span,
\* any other character is kept
RECURSIVE RewrittenFrom(_, _, _, _)
RewrittenFrom(text, ds, mode, p) ==
  IF p >= Len(text) THEN << >>
  ELSE IF \E k \in 1..Len(ds) : ds[k].index = p
  THEN LET d == ds[CHOOSE k \in 1..Len(ds) : ds[k].index = p]
       IN  newTextOf(d, mode) \o RewrittenFrom(text, ds, mode, p + d.length)
  ELSE <<text[p + 1]>> \o RewrittenFrom(text, ds, mode, p + 1)

\* C19: a deidentify call, in mode replace, remove or hash, on a text whose
\* detections do not overlap, returns, and the text it returns is the
\* original with each detected span replaced by the replacement of the mode
\* and every other character kept in place and in order.
SpansReplacedOthersKept ==
  (ret.op = "deidentify" /\ NonOverlapping(detectPHI(ret.text)))
  => /\ ret.ok
     /\ ret.value.text = RewrittenFrom(ret.text, detectPHI(ret.text), ret.mode, 0)

\* The rewriting alone: whenever such a call returns, its text is that
\* rewriting, and a record it stored holds, for each span, the replacement
\* that was spliced in.
SpansReplacedWhenReturned ==
  (ret.op = "deidentify" /\ NonOverlapping(detectPHI(ret.text)))
  => /\ ret.ok => ret.value.text = RewrittenFrom(ret.text, detectPHI(ret.text), ret.mode, 0)
     /\ \A a \in ret.stored : \A i \in 1..Len(deidentificationMap[a].map) :
          \E k \in 1..Len(detectPHI(ret.text)) :
            /\ detectPHI(ret.text)[k].index = deidentificationMap[a].map[i].index
            /\ newTextOf(detectPHI(ret.text)[k], ret.mode)
                 = deidentificationMap[a].map[i].replacement

\* the characters of text that lie in no span of ds, in order, from offset p
RECURSIVE OutsideFrom(_, _, _)
OutsideFrom(text, ds, p) ==
  IF p >= Len(text) THEN << >>
  ELSE IF \E k \in 1..Len(ds) : ds[k].index <= p /\ p < ds[k].index + ds[k].length
  THEN OutsideFrom(text, ds, p + 1)
  ELSE <<text[p + 1]>> \o OutsideFrom(text, ds, p + 1)

\* is sub a subsequence of s
RECURSIVE IsSubsequence(_, _)
IsSubsequence(sub, s) ==
  IF sub = << >> THEN TRUE
  ELSE IF s = << >> THEN FALSE
  ELSE IF Head(sub) = Head(s) THEN IsSubsequence(Tail(sub), Tail(s))
  ELSE IsSubsequence(sub, Tail(s))

\* result has lost a character of text that lies outside every span
LosesOutside(text, ds, result) == ~IsSubsequence(OutsideFrom(text, ds, 0), result)

\* result holds, after the replacement of one detection, a proper end piece
\* of the replacement of another, followed by the text after that span
KeepsFragment(text, ds, mode, result) ==
  \E i, j \in 1..Len(ds) :
    /\ i # j
    /\ ds[i].type # ds[j].type
    /\ \E n \in 1..(Len(newTextOf(ds[j], mode)) - 1) :
         result = Substring(text, 0, ds[i].index)
                    \o newTextOf(ds[i], mode)
                    \o SubSeq(newTextOf(ds[j], mode),
                              Len(newTextOf(ds[j], mode)) - n + 1,
                              Len(newTextOf(ds[j], mode)))
                    \o Substring(text, ds[j].index + ds[j].length, Len(text))

\* C20: overlapping detections of different categories corrupt the
\* rewriting.  The address "1 Ab St" contains the name "Ab St"; every
\* deidentify call that returns on a text with this address gives, in modes
\* replace and hash, a text that keeps an end piece of the replacement of
\* the name after the replacement of the address, and in mode remove, when
\* text follows the address, a text that has lost characters outside both
\* spans.
OverlapCorruptsText ==
  (ret.op = "deidentify" /\ ret.ok /\ ret.text \in OverlapTexts)
  => /\ ~NonOverlapping(detectPHI(ret.text))
     /\ ret.mode \in {"replace", "hash"}
          => KeepsFragment(ret.text, detectPHI(ret.text), ret.mode, ret.value.text)
     /\ (ret.mode = "remove" /\ ret.text = TextOverlapTail)
          => /\ LosesOutside(ret.text, detectPHI(ret.text), ret.value.text)
             /\ OutsideFrom(ret.text, detectPHI(ret.text), 0) = <<" ", "x">>
             /\ ret.value.text = << >>

\* C20 witness: a call in mode replace on "1 Ab St x" returned
\* "[ADDRESS]ENT_NAME] x"
FragmentOfNameTokenKept ==
  /\ ret.op = "deidentify"
  /\ ret.ok
  /\ ret.mode = "replace"
  /\ ret.text = TextOverlapTail
  /\ ret.value.text = <<"[","A","D","D","R","E","S","S","]",
                        "E","N","T","_","N","A","M","E","]"," ","x">>

(***************************************************************************)
(* Properties of the audit trail                                           *)
(***************************************************************************)
\* what reaches the audit sink: logger.auditLog and logger.securityEvent
\* write to it, logger.error writes to the application log
AuditOf(evs) == SelectSeq(evs, LAMBDA e : e.eventType # "error")

\* A second run of the same calls on other secrets of the same lengths:
\* other plaintext bytes,
AltPlaintext == <<"x","y","z">>

AltBytes(bytes) == IF bytes = Plaintext THEN AltPlaintext ELSE bytes

\* a text with every letter and digit replaced by another of its class, and
\* a text of the same length without any PHI,
Masked(text) ==
  [k \in 1..Len(text) |->
     IF text[k] \in Upper THEN "X"
     ELSE IF text[k] \in Lower THEN "x"
     ELSE IF text[k] \in Digit THEN "9" ELSE text[k]]

Blanked(text) == [k \in 1..Len(text) |-> "x"]

\* a mapping store whose original fragments are the masked ones,
AltMapStore(store) ==
  [id \in DOMAIN store |->
     [map |-> [k \in 1..Len(store[id].map) |->
                 [store[id].map[k] EXCEPT !.original = Masked(@)]],
      timestamp |-> store[id].timestamp,
      textHash |-> Sha256(Masked(store[id].textHash.sha256))]]

\* other key and salt bytes in the master key, and what the service makes
\* of them: derived keys, ciphertexts, tags, payloads, files
AltMasterKey(mk) ==
  IF mk = NoMasterKey THEN mk
  ELSE [mk EXCEPT !.key = Base64(FlipBit(FromBase64(@))),
                  !.salt = Base64(FlipBit(FromBase64(@))),
                  !.verification = Sha256(<<FlipBit(FromBase64(mk.key)),
                                            FlipBit(FromBase64(mk.salt)), mk.id>>)]

AltDerived(key) ==
  Pbkdf2(FlipBit(key.pbkdf2),
         Sha256([salt |-> FlipBit(key.salt.sha256.salt), rest |-> key.salt.sha256.rest]))

AltStore(store) == [cacheKey \in DOMAIN store |-> AltDerived(store[cacheKey])]

AltCipherKey(cipherKey) == EvpBytesToKey(AltDerived(cipherKey.evp))

RECURSIVE AltCiphertext(_)
AltCiphertext(ciphertext) ==
  IF "flipped" \in DOMAIN ciphertext THEN FlipBit(AltCiphertext(ciphertext.flipped))
  ELSE GcmEncrypt(AltCipherKey(ciphertext.gcm), AltBytes(ciphertext.plain))

RECURSIVE AltTag(_)
AltTag(tag) ==
  IF "flipped" \in DOMAIN tag THEN FlipBit(AltTag(tag.flipped))
  ELSE GcmTag(AltCipherKey(tag.mac), AltCiphertext(tag.over))

AltPayload(payload) ==
  [payload EXCEPT !.data = Base64(AltCiphertext(FromBase64(@))),
                  !.tag = Base64(AltTag(FromBase64(@)))]

RECURSIVE AltFile(_)
AltFile(file) ==
  IF ~file.exists THEN file
  ELSE IF "bytes" \in DOMAIN file THEN PlainFile(AltBytes(file.bytes))
  ELSE IF "appendedTo" \in DOMAIN file
  THEN [exists |-> TRUE, appendedTo |-> AltFile(file.appendedTo)]
  ELSE IF "tail" \in DOMAIN file
  THEN [file EXCEPT !.content = AltCiphertext(@), !.tail = AltTag(@)]
  ELSE [file EXCEPT !.content = AltCiphertext(@)]

AltFiles(fs) == [path \in DOMAIN fs |-> AltFile(fs[path])]

AltKeyFile(file) == IF Parses(file) THEN Stringify(AltMasterKey(file.json)) ELSE file

AltStream(stream) ==
  [stream EXCEPT !.key = AltDerived(@), !.ciphertext = AltCiphertext(@)]

\* the detections of the texts of the second run
variantScans ==
  [text \in {Masked(t) : t \in AuditTexts} \cup {Blanked(t) : t \in AuditTexts} |->
     detectFrom(initializePHIPatterns, 1, text)]

detectVariant(text) ==
  IF text \in DOMAIN variantScans THEN variantScans[text] ELSE detectPHI(text)

\* two detection lists agree in the category, the offset and the length of
\* each detection
SameShape(ds1, ds2) ==
  /\ Len(ds1) = Len(ds2)
  /\ \A k \in 1..Len(ds1) :
       /\ ds1[k].type = ds2[k].type
       /\ ds1[k].index = ds2[k].index
       /\ ds1[k].length = ds2[k].length

\* a step is a call (or the end of one): it sets ret and events
IsCall == ret' # ret \/ events' # events

\* the texts the second run may hand to the call of this step
SecondTexts ==
  IF ret'.op \in {"detectPHI", "deidentify", "reidentify"}
  THEN {Masked(ret'.text), Blanked(ret'.text)}
  ELSE {<< >>}

\* the events of the call of this step in the second run
SecondRunEvents(text2) ==
  CASE ret'.op = "detectPHI" -> detectPHIEvents(text2, detectVariant(text2))
    [] ret'.op = "deidentify" ->
         deidentifyDetected(text2, ret'.mode, ret'.generateMap,
                            AltMapStore(deidentificationMap), uuidCount, now,
                            detectVariant(text2)).events
    [] ret'.op = "reidentify" ->
         reidentify(text2, ret'.mapId, ret'.userId, AltMapStore(deidentificationMap),
                    now).events
    [] ret'.op = "deriveKey" ->
         deriveKey(ret'.context, ret'.userKey, AltMasterKey(masterKey),
                   AltStore(keyStore)).events
    [] ret'.op = "encrypt" ->
         encrypt(AltPlaintext, ret'.context, ret'.userKey, AltMasterKey(masterKey),
                 AltStore(keyStore), randCount, now).events
    [] ret'.op = "decrypt" ->
         decrypt(AltPayload(ret'.payload), ret'.context, ret'.userKey,
                 AltMasterKey(masterKey), AltStore(keyStore)).events
    [] ret'.op = "rotateMasterKey" ->
         IF ret'.pending THEN << >>
         ELSE rotateMasterKey(AltMasterKey(Head(tasks).key), AltMasterKey(masterKey),
                              AltStore(keyStore), AltKeyFile(keyFile), backups, now,
                              ret'.io).events
    [] ret'.op = "encryptFile" ->
         IF ret'.started
         THEN encryptFile(ret'.inputPath, ret'.outputPath, ret'.context, ret'.userKey,
                          AltMasterKey(masterKey), AltStore(keyStore), AltFiles(files),
                          randCount, now).events
         ELSE encryptFileFinished(AltStream(ret'.stream))
    [] ret'.op = "decryptFile" ->
         decryptFile(ret'.inputPath, ret'.outputPath, ret'.context, ret'.userKey,
                     AltMasterKey(masterKey), AltStore(keyStore), AltFiles(files)).events
    [] OTHER -> events'

\* C18 as stated: whatever call a step makes, the same call in a run that
\* differs in the content (not the length) of the text, of the plaintext or
\* of the key bytes sends the same records to the audit sink.
AuditBlindToContent ==
  [][IsCall => \A text2 \in SecondTexts :
                 AuditOf(events') = AuditOf(SecondRunEvents(text2))]_vars

\* C18: no audit or security record holds plaintext, a PHI fragment or key
\* material.  The records of reidentify, deriveKey, encrypt, decrypt,
\* encryptFile, decryptFile and rotateMasterKey, on success and on every
\* error path, are the same in a run on other plaintext of the same length
\* and other key bytes; the records of detectPHI and deidentify are the same
\* in a run on another text of the same length whose detections have the
\* same categories, offsets and lengths (they carry the number and the
\* categories of the detections and the length of the rewritten text).
AuditBlindGivenDetections ==
  [][IsCall => \A text2 \in SecondTexts :
                 (ret'.op \in {"detectPHI", "deidentify"}
                    => SameShape(detectPHI(ret'.text), detectVariant(text2)))
                 => AuditOf(events') = AuditOf(SecondRunEvents(text2))]_vars

\* C18 witness: an encrypt call derived its key and encrypted: two audit
\* records, of the derivation and of the encryption
EncryptionAudited ==
  /\ ret.op = "encrypt"
  /\ ret.ok
  /\ Len(AuditOf(events)) = 2

(***************************************************************************)
(* Properties of the EncryptionService, continued                          *)
(***************************************************************************)
\* C21: a payload made by encrypt under a context and a user key, handed
\* untouched to decrypt under another context or another user key (absent
\* or not) while the master key is the one it was made under, is refused
\* with the authentication error (so nothing is returned), whatever keys
\* are in the cache.
DecryptableUnderSamePairOnly ==
  (/\ ret.op = "decrypt"
   /\ ret.tamper = "none"
   /\ masterKey # NoMasterKey
   /\ ret.made.keyId = masterKey.id
   /\ <<ret.context, ret.userKey>> # <<ret.made.context, ret.made.userKey>>)
  => /\ ~ret.ok
     /\ ret.error = AuthFailure

(***************************************************************************)
(* Properties of the mapping store                                         *)
(***************************************************************************)
\* the identifiers crypto.randomUUID has returned so far
Drawn(n) == {Uuid(k) : k \in 1..n}

\* C22: mapping ids are unique.  No step changes the record stored under an
\* id; a step stores at most one new record, under an identifier that was
\* never drawn before (so neither in the store nor swept from it); every
\* stored id is an identifier that was drawn.
MappingIdsUnique ==
  [][/\ \A id \in DOMAIN deidentificationMap \cap DOMAIN deidentificationMap' :
          deidentificationMap'[id] = deidentificationMap[id]
     /\ Cardinality(DOMAIN deidentificationMap' \ DOMAIN deidentificationMap) <= 1
     /\ \A id \in DOMAIN deidentificationMap' \ DOMAIN deidentificationMap :
          id \notin Drawn(uuidCount)
     /\ DOMAIN deidentificationMap' \subseteq Drawn(uuidCount')
     /\ uuidCount' >= uuidCount]_vars

\* C22 witness: a deidentify call stored a record after the record of an
\* earlier call was swept
StoredAfterSweep ==
  /\ ret.op = "deidentify"
  /\ ret.stored # {}
  /\ calls = 2
  /\ uuidCount = 6
  /\ Cardinality(DOMAIN deidentificationMap) = 1

\* C23: a sweep evicts exactly the expired records.  A record leaves the
\* store only in a cleanupExpiredMaps step and only if its age exceeds
\* maxAge; such a step keeps every record whose age is at most maxAge, with
\* its id, entries and timestamp as they were, removes every older one, and
\* adds none.
SweepEvictsExactlyExpired ==
  [][/\ \A id \in DOMAIN deidentificationMap \ DOMAIN deidentificationMap' :
          /\ ret'.op = "cleanupExpiredMaps"
          /\ now - deidentificationMap[id].timestamp > maxAge
     /\ (ret'.op = "cleanupExpiredMaps" /\ now' = now)
          => /\ DOMAIN deidentificationMap' \subseteq DOMAIN deidentificationMap
             /\ \A id \in DOMAIN deidentificationMap :
                  /\ now - deidentificationMap[id].timestamp <= maxAge
                       => /\ id \in DOMAIN deidentificationMap'
                          /\ deidentificationMap'[id] = deidentificationMap[id]
                  /\ now - deidentificationMap[id].timestamp > maxAge
                       => id \notin DOMAIN deidentificationMap']_vars

\* C23 witness: a sweep removed a record and kept one whose age is exactly
\* maxAge
SweptOneKeptOneAtMaxAge ==
  /\ ret.op = "cleanupExpiredMaps"
  /\ ret.removed # {}
  /\ \E id \in DOMAIN deidentificationMap :
       now - deidentificationMap[id].timestamp = maxAge

\* a stored record holds one entry per detection of the text it was made
\* from (named by its textHash), with the fragment, category and offset
CompleteRecord(record) ==
  /\ Len(record.map) = Len(detectPHI(record.textHash.sha256))
  /\ \A j \in 1..Len(detectPHI(record.textHash.sha256)) :
       \E k \in 1..Len(record.map) :
         /\ record.map[k].index = detectPHI(record.textHash.sha256)[j].index
         /\ record.map[k].original = detectPHI(record.textHash.sha256)[j].text
         /\ record.map[k].type = detectPHI(record.textHash.sha256)[j].type

\* C24: inserts, reads and sweeps exclude each other.  After every step each
\* record of the store is complete; an authorized reidentify leaves the
\* store alone and either finds the record of its id, complete, and applies
\* every entry of it, or ends with the not-found error because the id is
\* not in the store.
ReadsWholeRecordOrNotFound ==
  [][/\ \A id \in DOMAIN deidentificationMap' : CompleteRecord(deidentificationMap'[id])
     /\ (ret'.op = "reidentify" /\ now' = now /\ Authorized(ret'.userId))
          => /\ deidentificationMap' = deidentificationMap
             /\ IF ret'.mapId \in DOMAIN deidentificationMap
                THEN /\ ret'.ok
                     /\ ret'.value = applyMappings(ret'.text,
                                        deidentificationMap[ret'.mapId].map, 1)
                ELSE /\ ~ret'.ok
                     /\ ret'.error = "De-identification map not found"]_vars

\* C24 witness: an authorized reidentify applied both entries of a record
\* stored after the record of an earlier call was swept
ReadAfterSweepAndInsert ==
  /\ ret.op = "reidentify"
  /\ ret.ok
  /\ ret.mapId \in DOMAIN deidentificationMap
  /\ Len(deidentificationMap[ret.mapId].map) = 2
  /\ ret.value # ret.text
  /\ calls = 2
  /\ uuidCount = 6
  /\ Cardinality(DOMAIN deidentificationMap) = 1

ExampleScenario ==
  (ret.op = "deidentify" /\ ret.text = TextExample /\ ret.mode = "replace")
  => /\ ret.ok
     /\ ret.value.text = TextExampleReplaced
     /\ reidentify(ret.value.text, ret.value.mapId, Admin,
                   deidentificationMap, now).value = TextExample

\* What the code makes of the example: the name pattern matches
\* "Call John", so a returning call gives "[PATIENT_NAME] Smith at [PHONE]".
ExampleAsCoded ==
  (ret.op = "deidentify" /\ ret.text = TextExample /\ ret.mode = "replace" /\ ret.ok)
  => ret.value.text = <<"[","P","A","T","I","E","N","T","_","N","A","M","E","]",
                        " ","S","m","i","t","h"," ","a","t"," ",
                        "[","P","H","O","N","E","]">>

\* C27: reidentify emits the 'Unauthorized Re-identification Attempt'
\* security event if and only if the requester failed the authorization
\* check; an authorized requester whose mapping id is unknown or expired gets
\* the not-found error and no such security event.
SecurityEventIffUnauthorized ==
  ret.op = "reidentify"
  => /\ (\E k \in 1..Len(events) :
           /\ events[k].eventType = "security"
           /\ events[k].event = "Unauthorized Re-identification Attempt")
        <=> ~Authorized(ret.userId)
     /\ (Authorized(ret.userId) /\ ret.mapId \notin DOMAIN deidentificationMap)
        => ret.error = "De-identification map not found"

\* C28: a deidentify call that ends with an error leaves the mapping store
\* unchanged, and a record is added by a call only if the call returned the
\* id of that record (no record that no caller can reference).
NoOrphanRecords ==
  ret.op = "deidentify"
  => /\ ~ret.ok => ret.stored = {}
     /\ ret.stored # {} => (ret.ok /\ ret.stored = {ret.value.mapId})

\* the constructor's init() has not finished: the continuation of
\* loadOrCreateMasterKey is still queued
InitPending == \E i \in DOMAIN tasks : tasks[i].kind = "create"

\* the key file found at startup was refused
LoadFailed == startFile.exists /\ loadOrCreateMasterKey(startFile, 0, 0, 0).state = "failed"

\* C29: deriveKey, and with it encrypt and decrypt, returns a key only while
\* a master key that initialization loaded or created is active: while init()
\* has not finished, after a failed load, and after cleanup(), the call fails
\* and the derived-key cache has no entry.
NoKeyWhileInactive ==
  (/\ ret.op \in {"deriveKey", "encrypt", "decrypt"}
   /\ (InitPending \/ LoadFailed \/ used.cleaned))
  => /\ ~ret.ok
     /\ keyStore = << >>

\* C30: round trip.  decrypt of a payload that encrypt of this service made,
\* under the context and user key it was made with, returns the plaintext,
\* whatever other deriveKey, encrypt and decrypt calls were made before and
\* in between, as long as no rotation and no cleanup happened.
EncryptDecryptRoundTrip ==
  (/\ ret.op = "decrypt"
   /\ ret.tamper = "none"
   /\ used.encrypt > 0
   /\ used.rotate = 0
   /\ ~used.cleaned
   /\ ret.context = ret.made.context
   /\ ret.userKey = ret.made.userKey)
  => /\ ret.ok
     /\ ret.value = ret.made.data

\* C30 witness: a payload made under context "a" and user key "b" came back
\* as the plaintext while the cache held the keys of other pairs, one of
\* them a pair whose salt input is the same
RoundTripAmongOtherPairs ==
  /\ ret.op = "decrypt"
  /\ ret.tamper = "none"
  /\ used.encrypt > 0
  /\ ret.context = CtxA
  /\ ret.userKey = KeyB
  /\ ret.made.context = CtxA
  /\ ret.made.userKey = KeyB
  /\ ret.ok
  /\ ret.value = Plaintext
  /\ cacheKeyOf(CtxAB, << >>) \in DOMAIN keyStore
  /\ cacheKeyOf(CtxA, << >>) \in DOMAIN keyStore

=============================================================================
